---- MODULE Spec2Model ----
(***************************************************************************)
(* Tw_stock_DB_Operating: the job tracker of web_server.py (creation       *)
(* endpoints, the in-memory upload_jobs map guarded by jobs_lock, the      *)
(* background workers) and the per-date upload pipeline of                 *)
(* data_upload/base.py behind upload.day_upload.                           *)
(*                                                                         *)
(* Every "with jobs_lock:" block of the source is one atomic step: the     *)
(* blocks never block inside, so a mutex-protected block and an atomic     *)
(* step admit the same interleavings.  Code between two blocks that only   *)
(* touches locals is folded into the block that follows it.                *)
(*                                                                         *)
(* Job ids (the first 8 hex digits of a uuid4) are taken to be fresh.      *)
(***************************************************************************)
EXTENDS Integers, Sequences, FiniteSets, TLC

\* ------------------------------------------------------------------ bounds

\* Number of creation requests (HTTP handler threads) issued in a run.
MaxReqs == 2

\* Day ordinal of datetime.max (9999-12-31), scaled down: a date is a day
\* ordinal in 1..MaxOrd and adding one day to MaxOrd overflows.
MaxOrd == 3

\* Number of direct Uploader.upload(date) calls in a run of SpecUpload.
MaxCalls == 3

\* Longest column list handed to _build_column_mapping, the six-header list
\* of the tests apart.
MaxCols == 2

\* Most rows in a table handed to _clean_dataframe.
MaxRows == 2

\* The days get_missing_dates looks back (30 in the program), scaled down.
days == 2

\* Number of scheduled daily_craw runs in a run of SpecCraw.
MaxRuns == 2

\* --------------------------------------------------------------- constants

DB_NAMES == <<"TWSE", "TPEX", "TAIFEX", "FAOI", "MGTS">>

DbNameSet == {DB_NAMES[k] : k \in 1..Len(DB_NAMES)}

None == "None"

\* A date string "YYYY-MM-DD" is <<"ymd", n>>, n its day ordinal; any other
\* string is <<"not-a-date">>.
DateStr(n) == <<"ymd", n>>

\* The empty string where a date string is expected.
EmptyStr == <<>>

BadDateStr == <<"not-a-date">>

\* datetime.strptime(s, "%Y-%m-%d"): the parsed day, or ValueError.
strptime(s) ==
    IF Len(s) = 2 /\ s[1] = "ymd" /\ s[2] \in 1..MaxOrd
    THEN [raised |-> FALSE, value |-> s[2]]
    ELSE [raised |-> TRUE, value |-> 0]

\* current.strftime("%Y-%m-%d")
strftime(n) == DateStr(n)

\* datetime.now().isoformat(): the clock reading as a string.
isoformat(t) == ToString(t)

\* --------------------------------------------------------- request inputs

DateInputs == {DateStr(n) : n \in 1..MaxOrd} \cup {BadDateStr}

DatabaseInputs ==
    {<<>>, <<"TWSE">>, <<"TWSE", "TAIFEX">>, <<"INVALID">>}

UploadRequest ==
    [start_date : DateInputs, end_date : DateInputs, databases : DatabaseInputs]

QuarterRevenueRequest == [year : {79, 80, 201}, season : {0, 4, 5}]

VARIABLES
    upload_jobs,   \* web_server.upload_jobs: job id -> job dict (ids are 1..Len)
    req,           \* per creation request: its handler's position and response
    worker,        \* per job: its worker thread's position and locals
    now,           \* datetime.now(): advances each time a finish time is taken
    db,            \* per source database: its UploadDate, DailyPrice, StockName tables
    world,         \* what lies outside the program and is fixed for a run: who
                   \* drives it (mode) and the batch the crawler holds per date
    fetches,       \* per <<source, date>>: GET requests sent to the crawler
    appends,       \* per <<source, date>>: bulk appends committed to DailyPrice
    ncalls,        \* SpecUpload: direct upload(date) calls made so far
    last,          \* SpecUpload: the latest direct call, its arguments and outcome
    thr,           \* SpecRace: per concurrent caller of upload(date), its
                   \* position inside the call and the frame it fetched
    quarter        \* the tables QuarterRevenue and QuarterRevenueUploaded of the
                   \* TWSE database, and the retrievals made from the portal

vars ==
    <<upload_jobs, req, worker, now, db, world, fetches, appends, ncalls, last, thr,
      quarter>>

tracker_vars == <<upload_jobs, req, worker, now>>

store_vars == <<db, world, fetches, appends, ncalls, last, thr, quarter>>

\* ---------------------------------------------------------- upload pipeline

\* A cell of a crawler record as JSON gives it: a number, a string holding a
\* number, or any other text.
IntCell(n) == [kind |-> "int", v |-> n]

NumStrCell(n) == [kind |-> "numstr", v |-> n]

TextCell == [kind |-> "text", v |-> 0]

\* One crawler record: the stock code, its display name and one typed field.
Rec(code, name, cell) == [code |-> code, name |-> name, value |-> cell]

\* The quarterly tables, empty, with no retrieval made.
EmptyQuarter ==
    [QuarterRevenue |-> <<>>, QuarterRevenueUploaded |-> <<>>, retrievals |-> 0]

\* An empty table set of one source database.
EmptyStore == [UploadDate |-> <<>>, DailyPrice |-> <<>>, StockName |-> <<>>]

\* Uploader.stock_code_col / stock_name_col: set by twse.Uploader alone.
stock_code_col(name) == IF name = "TWSE" THEN "SecurityCode" ELSE None

stock_name_col(name) == IF name = "TWSE" THEN "StockName" ELSE None

\* Uploader.preprocess: the uploaders that carry a display-name column drop
\* it, taifex.Uploader returns the frame as it is.
preprocess(name, df) ==
    IF name = "TAIFEX" THEN df
    ELSE [i \in 1..Len(df) |->
             [Date |-> df[i].Date, code |-> df[i].code, value |-> df[i].value]]

\* UploadType(**record): pydantic coerces a numeric string to the number and
\* raises ValidationError on other text; fields it does not declare are ignored.
UploadType(record) ==
    IF record.value.kind \in {"int", "numstr"}
    THEN [raised |-> FALSE,
          row |-> [Date |-> record.Date, code |-> record.code, value |-> record.value.v]]
    ELSE [raised |-> TRUE, row |-> None]

\* DataUploadBase.check_schema: every record through UploadType, all or nothing.
check_schema(df) ==
    IF \E i \in 1..Len(df) : UploadType(df[i]).raised
    THEN [raised |-> TRUE, df |-> <<>>]
    ELSE [raised |-> FALSE, df |-> [i \in 1..Len(df) |-> UploadType(df[i]).row]]

\* Variant of check_date that never finds a marker.
check_date_mut(store, date) == FALSE

\* DataUploadBase.check_date: SELECT COUNT(*) FROM UploadDate WHERE Date = date.
check_date(store, date) ==
    Cardinality({i \in 1..Len(store.UploadDate) : store.UploadDate[i].Date = date}) # 0

\* DataUploadBase.craw_data: one GET.  A transport error, an HTTP error
\* status, a body that is not JSON and a JSON object without the "data" key
\* (fault "fetch") raise RequestException, ValueError or KeyError, which the
\* except clause turns into the empty frame.  A JSON body that is not an
\* object, such as null or [] (fault "body"), makes ["data"] raise TypeError,
\* which the except clause does not name.
craw_data(batch, date, fault) ==
    IF fault = "fetch" THEN [raised |-> FALSE, df |-> <<>>]
    ELSE IF fault = "body" THEN [raised |-> TRUE, df |-> <<>>]
    ELSE [raised |-> FALSE,
          df |-> [i \in 1..Len(batch) |->
                     [Date |-> date, code |-> batch[i].code, name |-> batch[i].name,
                      value |-> batch[i].value]]]

\* Variant of drop_duplicates that keeps every row.
drop_duplicates_mut(rows) == rows

\* DataFrame.drop_duplicates(subset=[stock_code_col]): the first row of each code.
RECURSIVE drop_duplicates(_)
drop_duplicates(rows) ==
    IF rows = <<>> THEN <<>>
    ELSE LET init == drop_duplicates(SubSeq(rows, 1, Len(rows) - 1))
             lastrow == rows[Len(rows)]
         IN  IF \E i \in 1..Len(init) : init[i].code = lastrow.code
             THEN init
             ELSE Append(init, lastrow)

\* DataUploadBase.register_stock_names.  queries, inserted and commits count
\* the SELECTs sent, the rows appended and the commits made by the call.
register_stock_names(name, store, df, fault) ==
    IF stock_code_col(name) = None \/ stock_name_col(name) = None
    THEN [raised |-> FALSE, store |-> store,
          queries |-> 0, inserted |-> 0, commits |-> 0]
    ELSE LET existing_codes ==
                 {store.StockName[i].code : i \in 1..Len(store.StockName)}
             IsNew(row) == row.code \notin existing_codes
             new_stocks == SelectSeq(drop_duplicates(df), IsNew)
         IN  IF new_stocks = <<>>
             THEN [raised |-> FALSE, store |-> store,
                   queries |-> 1, inserted |-> 0, commits |-> 0]
             ELSE IF fault = "stock_to_sql"
             THEN [raised |-> TRUE, store |-> store,
                   queries |-> 1, inserted |-> 0, commits |-> 0]
             ELSE [raised |-> FALSE,
                   store |-> [store EXCEPT !.StockName =
                       @ \o [i \in 1..Len(new_stocks) |->
                                [code |-> new_stocks[i].code,
                                 name |-> new_stocks[i].name]]],
                   queries |-> 1, inserted |-> Len(new_stocks), commits |-> 1]

\* Variant of upload_df that commits without having appended the rows.
upload_df_mut(name, store, df, fault) ==
    [raised |-> FALSE, store |-> store, appended |-> 1]

\* DataUploadBase.upload_df: preprocess, check_schema, to_sql append, commit.
upload_df(name, store, df, fault) ==
    LET df_copy == check_schema(preprocess(name, df))
    IN  IF df_copy.raised \/ fault = "to_sql"
        THEN [raised |-> TRUE, store |-> store, appended |-> 0]
        ELSE [raised |-> FALSE,
              store |-> [store EXCEPT !.DailyPrice = @ \o df_copy.df],
              appended |-> 1]

\* Variant of upload_date that marks every date as a trading day.
upload_date_mut(store, date, df, fault) ==
    IF fault = "marker"
    THEN [raised |-> TRUE, store |-> store]
    ELSE [raised |-> FALSE,
          store |-> [store EXCEPT !.UploadDate =
                        Append(@, [Date |-> date, Open |-> TRUE])]]

\* Variant of upload_date that writes no marker for a day without data.
upload_date_data_only_mut(store, date, df, fault) ==
    IF fault = "marker"
    THEN [raised |-> TRUE, store |-> store]
    ELSE [raised |-> FALSE,
          store |-> IF Len(df) = 0 THEN store
                    ELSE [store EXCEPT !.UploadDate =
                             Append(@, [Date |-> date, Open |-> TRUE])]]

\* DataUploadBase.upload_date: INSERT INTO UploadDate (Date, Open), commit.
upload_date(store, date, df, fault) ==
    IF fault = "marker"
    THEN [raised |-> TRUE, store |-> store]
    ELSE [raised |-> FALSE,
          store |-> [store EXCEPT !.UploadDate =
                        Append(@, [Date |-> date, Open |-> (Len(df) # 0)])]]

\* DataUploadBase.upload.  fetched and appended count what the call did.
upload(name, store, date, batch, fault) ==
    IF check_date(store, date)
    THEN [raised |-> FALSE, store |-> store, fetched |-> 0, appended |-> 0]
    ELSE LET crawl == craw_data(batch, date, fault)
             df == crawl.df
             reg == IF Len(df) > 0 THEN register_stock_names(name, store, df, fault)
                    ELSE [raised |-> FALSE, store |-> store]
             upl == IF Len(df) > 0 /\ ~reg.raised THEN upload_df(name, reg.store, df, fault)
                    ELSE [raised |-> FALSE, store |-> reg.store, appended |-> 0]
             mark == upload_date(upl.store, date, df, fault)
         IN  IF crawl.raised
             THEN [raised |-> TRUE, store |-> store, fetched |-> 1, appended |-> 0]
             ELSE IF reg.raised
             THEN [raised |-> TRUE, store |-> reg.store, fetched |-> 1, appended |-> 0]
             ELSE IF upl.raised
             THEN [raised |-> TRUE, store |-> upl.store, fetched |-> 1, appended |-> 0]
             ELSE [raised |-> mark.raised, store |-> mark.store, fetched |-> 1,
                   appended |-> upl.appended]

\* upload.day_upload: connect, build the source's Uploader, upload(date), close.
\* opened and closed count the connections the call opened and closed:
\* conn.close() is the statement after uploader.upload(date), reached only
\* when upload returns.
day_upload(name, store, date, batch, fault) ==
    IF fault = "connect"
    THEN [raised |-> TRUE, store |-> store, fetched |-> 0, appended |-> 0,
          opened |-> 0, closed |-> 0]
    ELSE LET res == upload(name, store, date, batch, fault)
         IN  [raised |-> res.raised, store |-> res.store, fetched |-> res.fetched,
              appended |-> res.appended, opened |-> 1,
              closed |-> IF res.raised THEN 0 ELSE 1]

\* Every way one call can be struck; at most one fault per call.
Faults == {"none", "connect", "fetch", "body", "stock_to_sql", "to_sql", "marker"}

\* ------------------------------------------------------------- job tracker

JobIds == 1..Len(upload_jobs)

\* Variant of running_jobs that never sees a running job.
running_jobs_mut(jobs) == {}

\* The list comprehension of create_upload / create_quarter_revenue_upload.
running_jobs(jobs) ==
    {j \in 1..Len(jobs) : jobs[j].status = "running"}

\* The validation of create_upload between its two lock blocks: the HTTP
\* status it raises, or 200.
validate_upload(r) ==
    LET start == strptime(r.start_date)
        end == strptime(r.end_date)
    IN  IF \E i \in 1..Len(r.databases) :
               r.databases[i] \notin DbNameSet
        THEN 400
        ELSE IF r.databases = <<>> THEN 400
        ELSE IF start.raised \/ end.raised THEN 400
        ELSE IF end.value < start.value THEN 400
        ELSE 200

\* The validation that opens create_quarter_revenue_upload.
validate_quarter(r) ==
    IF r.season \notin {1, 2, 3, 4} THEN 400
    ELSE IF ~(80 <= r.year /\ r.year <= 200) THEN 400
    ELSE 200

\* Variant of new_upload_job whose entry is born "running".
new_upload_job_mut(job_id, r) ==
    [job_id |-> job_id, status |-> "running",
     start_date |-> r.start_date, end_date |-> r.end_date,
     databases |-> r.databases, total |-> 0, completed |-> 0,
     current_date |-> EmptyStr, current_db |-> "", errors |-> <<>>,
     finished_at |-> None]

\* The dict create_upload stores (created_at left out: nothing reads it).
new_upload_job(job_id, r) ==
    [job_id |-> job_id, status |-> "pending",
     start_date |-> r.start_date, end_date |-> r.end_date,
     databases |-> r.databases, total |-> 0, completed |-> 0,
     current_date |-> EmptyStr, current_db |-> "", errors |-> <<>>,
     finished_at |-> None]

\* The dict create_quarter_revenue_upload stores.
new_quarter_job(job_id, r) ==
    [job_id |-> job_id, type |-> "quarter_revenue", status |-> "pending",
     year |-> r.year, season |-> r.season, record_count |-> 0,
     errors |-> <<>>, finished_at |-> None]

IsDaily(job) == "databases" \in DOMAIN job

\* upload_jobs[job_id]["error"] = str(e): the dict gains the key.
with_error(job, e) ==
    [k \in DOMAIN job \cup {"error"} |-> IF k = "error" THEN e ELSE job[k]]

IdleWorker == [pc |-> "unstarted", dates |-> <<>>, db_i |-> 1, date_i |-> 1,
               completed |-> 0, calls |-> <<>>]

\* The source databases a run touches, and the dates it can name.
Sources == {"TWSE", "TAIFEX"}

Dates == {DateStr(n) : n \in 1..MaxOrd}

Items == Sources \X Dates

\* What the crawler may hold for one source and date.
Batches ==
    {<<>>,
     <<Rec("2330", "TSMC", IntCell(1))>>,
     <<Rec("2330", "TSMC", IntCell(1)), Rec("2317", "HonHai", NumStrCell(2))>>,
     <<Rec("2330", "TSMC", IntCell(1)), Rec("2330", "TSMC-2", IntCell(2))>>,
     <<Rec("2330", "TSMC", IntCell(1)), Rec("2317", "HonHai", TextCell)>>}

\* The requests with which clients drive the concurrent tracker: a one-item
\* and a two-item job, a job whose date loop overflows, rejected requests.
SmallRequest ==
    {[start_date |-> DateStr(1), end_date |-> DateStr(1), databases |-> <<"TWSE">>],
     [start_date |-> DateStr(1), end_date |-> DateStr(2), databases |-> <<"TWSE">>],
     [start_date |-> DateStr(MaxOrd), end_date |-> DateStr(MaxOrd),
      databases |-> <<"TWSE">>],
     [start_date |-> DateStr(2), end_date |-> DateStr(1), databases |-> <<"TWSE">>],
     [start_date |-> BadDateStr, end_date |-> DateStr(1), databases |-> <<"TWSE">>],
     [start_date |-> DateStr(1), end_date |-> DateStr(1), databases |-> <<>>],
     [start_date |-> DateStr(1), end_date |-> DateStr(1), databases |-> <<"INVALID">>]}

\* The request bodies clients send to POST /api/upload in this run.
Menu == IF world.mode = "tracker" THEN SmallRequest ELSE UploadRequest

\* The faults that may strike a day_upload call made by a job in this run.
JobFaults == IF world.mode = "tracker" THEN {"none", "connect"} ELSE Faults

\* The state of the tracker and of the databases when the process starts,
\* with n requests about to arrive.
InitProgram(n) ==
    /\ upload_jobs = <<>>
    /\ req = [r \in 1..n |-> [pc |-> "new", kind |-> None, resp |-> 0, job |-> 0,
                              input |-> None]]
    /\ worker = <<>>
    /\ now = 0
    /\ db = [name \in Sources |-> EmptyStore]
    /\ fetches = [it \in Items |-> 0]
    /\ appends = [it \in Items |-> 0]
    /\ ncalls = 0
    /\ last = None
    /\ quarter = EmptyQuarter

\* Spec: several clients and small jobs; the crawler holds one record for
\* every date, and only the database connection may fail.
Init ==
    /\ InitProgram(MaxReqs)
    /\ thr = <<>>
    /\ world = [mode |-> "tracker", src |-> None,
                feed |-> [d \in Dates |-> <<Rec("2330", "TSMC", IntCell(1))>>]]

\* A day on which the crawler holds ten records, of ten stocks.
TenRecords == [i \in 1..10 |-> Rec(ToString(2329 + i), ToString(i), IntCell(i))]

\* SpecJob: one client, any request; any fault may strike any item.
InitJob ==
    /\ InitProgram(1)
    /\ thr = <<>>
    /\ \E b \in {<<>>, <<Rec("2330", "TSMC", IntCell(1))>>, TenRecords} :
         world = [mode |-> "job", src |-> None, feed |-> [d \in Dates |-> b]]

\* The dates direct upload(date) calls name.
UploadDates == {DateStr(1), DateStr(2)}

\* SpecUpload: a caller holding one source's Uploader calls upload(date)
\* again and again; the crawler holds any batch for each date.
InitUpload ==
    /\ InitProgram(0)
    /\ thr = <<>>
    /\ \E name \in Sources, b1 \in Batches, b2 \in Batches :
         world = [mode |-> "upload", src |-> name,
                  feed |-> [d \in Dates |->
                               IF d = DateStr(1) THEN b1
                               ELSE IF d = DateStr(2) THEN b2 ELSE <<>>]]

\* ------------------------------------------------------- creation endpoints

\* create_upload, first lock block: the running-job check.
create_upload_check(r) ==
    /\ req[r].pc = "new"
    /\ IF running_jobs(upload_jobs) # {}
       THEN req' = [req EXCEPT ![r].pc = "done", ![r].kind = "daily", ![r].resp = 409]
       ELSE req' = [req EXCEPT ![r].pc = "checked", ![r].kind = "daily"]
    /\ UNCHANGED <<upload_jobs, worker, now>>
    /\ UNCHANGED store_vars

\* create_upload, validation and second lock block: the insert.
create_upload_insert(r) ==
    /\ req[r].pc = "checked"
    /\ req[r].kind = "daily"
    /\ \E rq \in Menu :
         IF validate_upload(rq) # 200
         THEN /\ req' = [req EXCEPT ![r].pc = "done", ![r].resp = validate_upload(rq)]
              /\ UNCHANGED <<upload_jobs, worker>>
         ELSE LET job_id == Len(upload_jobs) + 1 IN
              /\ upload_jobs' = Append(upload_jobs, new_upload_job(job_id, rq))
              /\ worker' = Append(worker, IdleWorker)
              /\ req' = [req EXCEPT ![r].pc = "inserted", ![r].job = job_id]
    /\ UNCHANGED now
    /\ UNCHANGED store_vars

\* Thread(...).start() and the return of either creation endpoint.
create_start_thread(r) ==
    /\ req[r].pc = "inserted"
    /\ worker' = [worker EXCEPT ![req[r].job].pc = "start"]
    /\ req' = [req EXCEPT ![r].pc = "done", ![r].resp = 200]
    /\ UNCHANGED <<upload_jobs, now>>
    /\ UNCHANGED store_vars

\* create_quarter_revenue_upload: validation and first lock block.
create_quarter_check(r) ==
    /\ req[r].pc = "new"
    /\ \E rq \in QuarterRevenueRequest :
         IF validate_quarter(rq) # 200
         THEN req' = [req EXCEPT ![r].pc = "done", ![r].kind = "quarter",
                                 ![r].resp = validate_quarter(rq)]
         ELSE IF running_jobs(upload_jobs) # {}
         THEN req' = [req EXCEPT ![r].pc = "done", ![r].kind = "quarter", ![r].resp = 409]
         ELSE req' = [req EXCEPT ![r].pc = "checked", ![r].kind = "quarter",
                                 ![r].input = rq]
    /\ UNCHANGED <<upload_jobs, worker, now>>
    /\ UNCHANGED store_vars

\* create_quarter_revenue_upload, second lock block: the insert.
create_quarter_insert(r) ==
    /\ req[r].pc = "checked"
    /\ req[r].kind = "quarter"
    /\ LET job_id == Len(upload_jobs) + 1 IN
       /\ upload_jobs' = Append(upload_jobs, new_quarter_job(job_id, req[r].input))
       /\ worker' = Append(worker, IdleWorker)
       /\ req' = [req EXCEPT ![r].pc = "inserted", ![r].job = job_id, ![r].input = None]
    /\ UNCHANGED now
    /\ UNCHANGED store_vars

\* ------------------------------------------------------------ job workers

\* The while loop of run_upload_job that lists the dates start..end:
\* "current += timedelta(days=1)" raises OverflowError past datetime.max.
RECURSIVE date_loop(_, _, _)
date_loop(current, end_dt, dates) ==
    IF current <= end_dt
    THEN IF current + 1 > MaxOrd
         THEN [raised |-> TRUE, dates |-> Append(dates, strftime(current))]
         ELSE date_loop(current + 1, end_dt, Append(dates, strftime(current)))
    ELSE [raised |-> FALSE, dates |-> dates]

\* Variant of total_tasks that adds where the code multiplies.
total_tasks_mut(dates, databases) == Len(dates) + Len(databases)

\* len(dates) * len(databases)
total_tasks(dates, databases) == Len(dates) * Len(databases)

\* run_upload_job up to its first lock block.  The date parsing and the date
\* loop stand outside the try statement: an exception there ends the thread
\* and leaves the job as it was.
run_upload_job_setup(j) ==
    /\ worker[j].pc = "start"
    /\ IsDaily(upload_jobs[j])
    /\ LET start_dt == strptime(upload_jobs[j].start_date)
           end_dt == strptime(upload_jobs[j].end_date)
           loop == date_loop(start_dt.value, end_dt.value, <<>>)
       IN  IF start_dt.raised \/ end_dt.raised \/ loop.raised
           THEN /\ worker' = [worker EXCEPT ![j].pc = "died"]
                /\ UNCHANGED upload_jobs
           ELSE /\ upload_jobs' =
                      [upload_jobs EXCEPT
                          ![j].status = "running",
                          ![j].total = total_tasks(loop.dates, upload_jobs[j].databases),
                          ![j].completed = 0]
                /\ worker' = [worker EXCEPT ![j].pc = "item", ![j].dates = loop.dates,
                                            ![j].completed = 0]
    /\ UNCHANGED <<req, now>>
    /\ UNCHANGED store_vars

\* The head of the inner loop: the lock block that sets the current item.
run_upload_job_pointer(j) ==
    /\ worker[j].pc = "item"
    /\ worker[j].db_i <= Len(upload_jobs[j].databases)
    /\ upload_jobs' =
           [upload_jobs EXCEPT
               ![j].current_date = worker[j].dates[worker[j].date_i],
               ![j].current_db = upload_jobs[j].databases[worker[j].db_i]]
    /\ worker' = [worker EXCEPT ![j].pc = "call"]
    /\ UNCHANGED <<req, now>>
    /\ UNCHANGED store_vars

\* Variant of record_error that drops the error.
record_error_mut(job, db_name, date, e) == job

\* The except branch of the inner try: errors.append(f"{db_name} {date}: {e}").
record_error(job, db_name, date, e) ==
    [job EXCEPT !.errors = Append(@, <<db_name, date, e>>)]

\* The inner try: the sleep, day_upload(date, opt), and the except branch
\* under the lock.  calls logs each invocation, whether it raised, the fault
\* that struck it, and the connections it opened and closed.
run_upload_job_call(j) ==
    /\ worker[j].pc = "call"
    /\ IsDaily(upload_jobs[j])
    /\ LET db_name == upload_jobs[j].databases[worker[j].db_i]
           date == worker[j].dates[worker[j].date_i]
           item == <<db_name, date>>
       IN  \E fault \in JobFaults :
               LET res == day_upload(db_name, db[db_name], date, world.feed[date], fault)
               IN  /\ db' = [db EXCEPT ![db_name] = res.store]
                   /\ fetches' = [fetches EXCEPT ![item] = @ + res.fetched]
                   /\ appends' = [appends EXCEPT ![item] = @ + res.appended]
                   /\ worker' = [worker EXCEPT
                                    ![j].pc = "count",
                                    ![j].calls =
                                        Append(@, <<db_name, date, res.raised, fault,
                                                    <<res.opened, res.closed>>>>)]
                   /\ IF res.raised
                      THEN upload_jobs' =
                               [upload_jobs EXCEPT
                                   ![j] = record_error(@, db_name, date, fault)]
                      ELSE UNCHANGED upload_jobs
    /\ UNCHANGED <<req, now, world, ncalls, last, thr, quarter>>

\* "completed += 1", the lock block that publishes it, and the loop step.
run_upload_job_count(j) ==
    /\ worker[j].pc = "count"
    /\ LET completed == worker[j].completed + 1
           is_last == worker[j].date_i >= Len(worker[j].dates)
       IN  /\ upload_jobs' = [upload_jobs EXCEPT ![j].completed = completed]
           /\ worker' = [worker EXCEPT
                             ![j].pc = "item",
                             ![j].completed = completed,
                             ![j].date_i = IF is_last THEN 1 ELSE @ + 1,
                             ![j].db_i = IF is_last THEN @ + 1 ELSE @]
    /\ UNCHANGED <<req, now>>
    /\ UNCHANGED store_vars

\* After the loops: the lock block that marks the job completed.
run_upload_job_finish(j) ==
    /\ worker[j].pc = "item"
    /\ worker[j].db_i > Len(upload_jobs[j].databases)
    /\ upload_jobs' = [upload_jobs EXCEPT ![j].status = "completed",
                                          ![j].finished_at = isoformat(now)]
    /\ worker' = [worker EXCEPT ![j].pc = "done"]
    /\ now' = now + 1
    /\ UNCHANGED req
    /\ UNCHANGED store_vars

\* run_quarter_revenue_job, first lock block.
run_quarter_revenue_job_start(j) ==
    /\ worker[j].pc = "start"
    /\ ~IsDaily(upload_jobs[j])
    /\ upload_jobs' = [upload_jobs EXCEPT ![j].status = "running"]
    /\ worker' = [worker EXCEPT ![j].pc = "call"]
    /\ UNCHANGED <<req, now>>
    /\ UNCHANGED store_vars

\* What may strike the try statement of run_quarter_revenue_job: nothing, a
\* failing connection, or an exception of uploader.upload.
QuarterJobFaults == {"none", "connect", "upload"}

\* run_quarter_revenue_job, the try statement: the connection, the uploader,
\* upload(year, season), conn.close() and either closing lock block.  calls
\* logs the invocation, whether it raised, the fault, and the connections it
\* opened and closed: conn.close() follows upload inside the try.
run_quarter_revenue_job_call(j) ==
    /\ worker[j].pc = "call"
    /\ ~IsDaily(upload_jobs[j])
    /\ \E fault \in QuarterJobFaults, record_count \in {0, 1} :
       LET raised == fault # "none"
           opened == IF fault = "connect" THEN 0 ELSE 1
           closed == IF raised THEN 0 ELSE 1
       IN
         /\ IF raised
            THEN /\ record_count = 0
                 /\ upload_jobs' =
                        [upload_jobs EXCEPT
                            ![j] = with_error([@ EXCEPT !.status = "failed",
                                                        !.finished_at = isoformat(now)],
                                              "e")]
            ELSE upload_jobs' = [upload_jobs EXCEPT ![j].status = "completed",
                                                    ![j].record_count = record_count,
                                                    ![j].finished_at = isoformat(now)]
         /\ worker' = [worker EXCEPT
                          ![j].pc = "done",
                          ![j].calls = Append(@, <<"TWSE", <<upload_jobs[j].year,
                                                             upload_jobs[j].season>>,
                                                  raised, fault,
                                                  <<opened, closed>>>>)]
    /\ now' = now + 1
    /\ UNCHANGED req
    /\ UNCHANGED store_vars

Next ==
    \/ \E r \in DOMAIN req : create_upload_check(r)
    \/ \E r \in DOMAIN req : create_upload_insert(r)
    \/ \E r \in DOMAIN req : create_start_thread(r)
    \/ \E r \in DOMAIN req : create_quarter_check(r)
    \/ \E r \in DOMAIN req : create_quarter_insert(r)
    \/ \E j \in JobIds : run_upload_job_setup(j)
    \/ \E j \in JobIds : run_upload_job_pointer(j)
    \/ \E j \in JobIds : run_upload_job_call(j)
    \/ \E j \in JobIds : run_upload_job_count(j)
    \/ \E j \in JobIds : run_upload_job_finish(j)
    \/ \E j \in JobIds : run_quarter_revenue_job_start(j)
    \/ \E j \in JobIds : run_quarter_revenue_job_call(j)

\* ------------------------------------------------------ direct upload calls

\* One call of Uploader.upload(date) on an open connection.
uploader_upload ==
    /\ world.mode = "upload"
    /\ ncalls < MaxCalls
    /\ \E date \in UploadDates, fault \in Faults \ {"connect"} :
         LET name == world.src
             res == upload(name, db[name], date, world.feed[date], fault)
         IN  /\ db' = [db EXCEPT ![name] = res.store]
             /\ fetches' = [fetches EXCEPT ![<<name, date>>] = @ + res.fetched]
             /\ appends' = [appends EXCEPT ![<<name, date>>] = @ + res.appended]
             /\ last' = [date |-> date, fault |-> fault, raised |-> res.raised,
                         fetched |-> res.fetched, appended |-> res.appended]
    /\ ncalls' = ncalls + 1
    /\ UNCHANGED <<tracker_vars, world, thr, quarter>>

NextUpload == uploader_upload

Spec == Init /\ [][Next]_vars

SpecJob == InitJob /\ [][Next]_vars

SpecUpload == InitUpload /\ [][NextUpload]_vars

\* ------------------------------------------------- stock registry calls

\* What StockName may hold before the first call.
StockNameInputs ==
    {<<>>,
     <<[code |-> "2330", name |-> "TSMC"]>>,
     <<[code |-> "2317", name |-> "HonHai"]>>,
     <<[code |-> "2330", name |-> "TSMC"], [code |-> "2317", name |-> "HonHai"]>>,
     <<[code |-> "1101", name |-> "TCC"]>>}

\* SpecRegistry: a caller holding one source's Uploader calls
\* register_stock_names again and again with the frame of one fetched batch.
InitRegistry ==
    /\ upload_jobs = <<>> /\ req = <<>> /\ worker = <<>> /\ now = 0
    /\ fetches = [it \in Items |-> 0]
    /\ appends = [it \in Items |-> 0]
    /\ ncalls = 0
    /\ last = None
    /\ thr = <<>>
    /\ quarter = EmptyQuarter
    /\ \E name \in DbNameSet, b \in Batches \ {<<>>}, names \in StockNameInputs :
         /\ world = [mode |-> "registry", src |-> name,
                     feed |-> [d \in Dates |-> b]]
         /\ db = [n \in DbNameSet |->
                     IF n = name THEN [EmptyStore EXCEPT !.StockName = names]
                     ELSE EmptyStore]

\* One call of Uploader.register_stock_names(df).
registry_register_stock_names ==
    /\ world.mode = "registry"
    /\ ncalls < MaxCalls
    /\ \E fault \in {"none", "stock_to_sql"} :
         LET name == world.src
             df == craw_data(world.feed[DateStr(1)], DateStr(1), "none").df
             res == register_stock_names(name, db[name], df, fault)
         IN  /\ db' = [db EXCEPT ![name] = res.store]
             /\ last' = [fault |-> fault, raised |-> res.raised,
                         queries |-> res.queries, inserted |-> res.inserted,
                         commits |-> res.commits]
    /\ ncalls' = ncalls + 1
    /\ UNCHANGED <<tracker_vars, world, fetches, appends, thr, quarter>>

NextRegistry == registry_register_stock_names

SpecRegistry == InitRegistry /\ [][NextRegistry]_vars

\* ------------------------------------------------- concurrent upload calls

\* The threads that may be inside upload(date) for one source at one time:
\* the scheduler thread running daily_craw and a job's worker thread.  Each
\* goes through day_upload with a connection of its own.
Callers == {"daily_craw", "run_upload_job"}

IdleCaller == [pc |-> "idle", date |-> EmptyStr, df |-> <<>>]

\* SpecRace: both callers upload dates of one source; the crawler holds one
\* batch for every date.  The UploadDate table is created outside this
\* repository, so whether its Date column is unique is fixed per run.
InitRace ==
    /\ InitProgram(0)
    /\ thr = [t \in Callers |-> IdleCaller]
    /\ \E name \in Sources, b \in Batches, u \in BOOLEAN :
         world = [mode |-> "race", src |-> name, unique |-> u,
                  feed |-> [d \in Dates |-> b]]

\* upload(date) up to the decision of line 170: the SELECT of check_date.
race_check_date(t) ==
    /\ world.mode = "race"
    /\ thr[t].pc = "idle"
    /\ ncalls < MaxCalls
    /\ \E date \in UploadDates :
         thr' = [thr EXCEPT ![t] =
                    IF check_date(db[world.src], date)
                    THEN IdleCaller
                    ELSE [pc |-> "craw", date |-> date, df |-> <<>>]]
    /\ ncalls' = ncalls + 1
    /\ UNCHANGED <<tracker_vars, db, world, fetches, appends, last, quarter>>

\* Lines 175-178: craw_data, and for a non-empty frame register_stock_names
\* and upload_df.  An exception ends the call.
race_persist(t) ==
    /\ world.mode = "race"
    /\ thr[t].pc = "craw"
    /\ \E fault \in {"none", "fetch", "body", "stock_to_sql", "to_sql"} :
         LET name == world.src
             date == thr[t].date
             crawl == craw_data(world.feed[date], date, fault)
             df == crawl.df
             reg == IF Len(df) > 0
                    THEN register_stock_names(name, db[name], df, fault)
                    ELSE [raised |-> FALSE, store |-> db[name]]
             upl == IF Len(df) > 0 /\ ~reg.raised
                    THEN upload_df(name, reg.store, df, fault)
                    ELSE [raised |-> FALSE, store |-> reg.store, appended |-> 0]
         IN  /\ db' = [db EXCEPT ![name] = upl.store]
             /\ fetches' = [fetches EXCEPT ![<<name, date>>] = @ + 1]
             /\ appends' = [appends EXCEPT ![<<name, date>>] = @ + upl.appended]
             /\ thr' = [thr EXCEPT ![t] =
                        IF crawl.raised \/ reg.raised \/ upl.raised THEN IdleCaller
                        ELSE [pc |-> "mark", date |-> date, df |-> df]]
    /\ UNCHANGED <<tracker_vars, world, ncalls, last, quarter>>

\* Line 179: upload_date.  With a unique Date column the INSERT of a date
\* that is already there raises; without one it adds a second row.
race_upload_date(t) ==
    /\ world.mode = "race"
    /\ thr[t].pc = "mark"
    /\ \E fault \in {"none", "marker"} :
         LET name == world.src
             date == thr[t].date
             mark == IF world.unique /\ check_date(db[name], date)
                     THEN [raised |-> TRUE, store |-> db[name]]
                     ELSE upload_date(db[name], date, thr[t].df, fault)
         IN  db' = [db EXCEPT ![name] = mark.store]
    /\ thr' = [thr EXCEPT ![t] = IdleCaller]
    /\ UNCHANGED <<tracker_vars, world, fetches, appends, ncalls, last, quarter>>

NextRace ==
    \/ \E t \in Callers : race_check_date(t)
    \/ \E t \in Callers : race_persist(t)
    \/ \E t \in Callers : race_upload_date(t)

SpecRace == InitRace /\ [][NextRace]_vars

\* The steps of the thread serving request r, and of job j's worker thread.
HandlerStep(r) ==
    /\ r \in DOMAIN req
    /\ \/ create_upload_check(r)
       \/ create_upload_insert(r)
       \/ create_start_thread(r)
       \/ create_quarter_check(r)
       \/ create_quarter_insert(r)

WorkerStep(j) ==
    /\ j \in JobIds
    /\ \/ run_upload_job_setup(j)
       \/ run_upload_job_pointer(j)
       \/ run_upload_job_call(j)
       \/ run_upload_job_count(j)
       \/ run_upload_job_finish(j)
       \/ run_quarter_revenue_job_start(j)
       \/ run_quarter_revenue_job_call(j)

\* Fair scheduling: a thread that can take a step eventually takes one; every
\* pipeline call returns or raises (run_upload_job_call is a single step).
Fairness ==
    /\ \A r \in 1..MaxReqs : WF_vars(HandlerStep(r))
    /\ \A j \in 1..MaxReqs : WF_vars(WorkerStep(j))

SpecJobFair == SpecJob /\ Fairness

\* ------------------------------------------------ quarterly column mapping

\* Text is a sequence of characters; a character outside ASCII is written by
\* its code point.  The headers of the portal's tables:
H_CompanyCode == <<"u516C", "u53F8", "u4EE3", "u865F">>

H_CompanyName == <<"u516C", "u53F8", "u540D", "u7A31">>

H_Industry == <<"u7522", "u696D", "u5225">>

H_EPS == <<"u57FA", "u672C", "u6BCF", "u80A1", "u76C8", "u9918">>

H_ParValue == <<"u666E", "u901A", "u80A1", "u6BCF", "u80A1", "u9762", "u984D">>

H_NonOperatingIncome == <<"u71DF", "u696D", "u5916", "u6536", "u5165", "u53CA", "u652F", "u51FA">>

H_OperatingIncome == <<"u71DF", "u696D", "u5229", "u76CA">>

H_Revenue == <<"u71DF", "u696D", "u6536", "u5165">>

H_NetIncome == <<"u7A05", "u5F8C", "u6DE8", "u5229">>

\* The EPS header with its unit.
H_EPS_Unit == <<"u57FA", "u672C", "u6BCF", "u80A1", "u76C8", "u9918", "(", "u5143", ")">>

\* A header that names no field.
H_Remark == <<"u5099", "u8A3B">>

\* A two-level header joined by a space, holding two fragments.
H_Joined == <<"u640D", "u76CA", " ", "u71DF", "u696D", "u6536", "u5165", " ", "u71DF", "u696D", "u5229", "u76CA">>

\* COLUMN_KEYWORD_MAPPING in the order of the dict literal.
COLUMN_KEYWORD_MAPPING ==
    <<<<H_CompanyCode, "CompanyCode">>,
      <<H_CompanyName, "CompanyName">>,
      <<H_Industry, "Industry">>,
      <<H_EPS, "EPS">>,
      <<H_ParValue, "ParValue">>,
      <<H_NonOperatingIncome, "NonOperatingIncome">>,
      <<H_OperatingIncome, "OperatingIncome">>,
      <<H_Revenue, "Revenue">>,
      <<H_NetIncome, "NetIncome">>>>

\* `keyword in col_str`.
keyword_in(keyword, col_str) ==
    \E k \in 1..(Len(col_str) - Len(keyword) + 1) :
        SubSeq(col_str, k, k + Len(keyword) - 1) = keyword

\* Variant of first_keyword that takes the last fragment found.
first_keyword_mut(col_str, k) ==
    LET hits == {m \in k..Len(COLUMN_KEYWORD_MAPPING) :
                    keyword_in(COLUMN_KEYWORD_MAPPING[m][1], col_str)}
    IN  IF hits = {} THEN 0 ELSE CHOOSE m \in hits : \A n \in hits : n <= m

\* The inner loop of _build_column_mapping from the k-th item on: the index
\* of the item at which it breaks, 0 when it runs to the end.
RECURSIVE first_keyword(_, _)
first_keyword(col_str, k) ==
    IF k > Len(COLUMN_KEYWORD_MAPPING) THEN 0
    ELSE IF keyword_in(COLUMN_KEYWORD_MAPPING[k][1], col_str) THEN k
    ELSE first_keyword(col_str, k + 1)

\* QuarterRevenueUploader._build_column_mapping: the dict it returns.
_build_column_mapping(columns) ==
    LET matched == {columns[i] : i \in {n \in 1..Len(columns) :
                                           first_keyword(columns[n], 1) # 0}}
    IN  [col \in matched |-> COLUMN_KEYWORD_MAPPING[first_keyword(col, 1)][2]]

\* The headers a column list is drawn from.
HeaderInputs ==
    {H_CompanyCode, H_CompanyName, H_Industry, H_EPS, H_ParValue,
     H_NonOperatingIncome, H_OperatingIncome, H_Revenue, H_NetIncome,
     H_EPS_Unit, H_Remark, H_Joined}

\* A column list of six headers, the three of
\* test_distinguishes_revenue_columns among them.
RevenueHeaders ==
    <<H_CompanyCode, H_CompanyName, H_Industry, H_Revenue, H_OperatingIncome,
      H_NonOperatingIncome>>

\* The column lists handed to _build_column_mapping.
ColumnInputs ==
    UNION {[1..n -> HeaderInputs] : n \in 1..MaxCols} \cup {RevenueHeaders}

\* SpecMapping: one call of _build_column_mapping on any column list.
InitMapping ==
    /\ InitProgram(0)
    /\ thr = <<>>
    /\ \E columns \in ColumnInputs :
         world = [mode |-> "mapping", columns |-> columns]

mapping_build_column_mapping ==
    /\ world.mode = "mapping"
    /\ ncalls = 0
    /\ last' = [mapping |-> _build_column_mapping(world.columns)]
    /\ ncalls' = 1
    /\ UNCHANGED <<tracker_vars, db, world, fetches, appends, thr, quarter>>

NextMapping == mapping_build_column_mapping

SpecMapping == InitMapping /\ [][NextMapping]_vars

\* ------------------------------------------------- quarterly table cleaning

\* A cell of a table as read_html gives it: text, or a number it has parsed
\* (IntCell); NullCell is pd.NA / NaN.
StrCell(chars) == [kind |-> "str", v |-> chars]

NullCell == [kind |-> "null", v |-> 0]

Digits == <<"0", "1", "2", "3", "4", "5", "6", "7", "8", "9">>

DigitSet == {Digits[i] : i \in 1..Len(Digits)}

\* str(n) for an integer.
RECURSIVE int_to_str(_)
int_to_str(n) ==
    IF n < 0 THEN <<"-">> \o int_to_str(0 - n)
    ELSE IF n < 10 THEN <<Digits[n + 1]>>
    ELSE int_to_str(n \div 10) \o <<Digits[(n % 10) + 1]>>

\* Series.astype(str) on one cell.
astype_str(cell) ==
    IF cell.kind = "int" THEN int_to_str(cell.v)
    ELSE IF cell.kind = "null" THEN <<"<", "N", "A", ">">>
    ELSE cell.v

\* Series.str.match(r"^\d") on one text.
str_match_digit(txt) == Len(txt) > 0 /\ txt[1] \in DigitSet

\* The values line 309 replaces by pd.NA: "--" and three dash characters.
DashPlaceholders == {<<"-", "-">>, <<"uFF0D">>, <<"u2015">>, <<"u2014">>}

\* DataFrame.replace([...], pd.NA) on one cell.
replace_dashes(cell) ==
    IF cell.kind = "str" /\ cell.v \in DashPlaceholders THEN NullCell ELSE cell

\* Series.str.replace(",", "") on one text.
str_replace_comma(txt) ==
    LET NotComma(c) == c # ","
    IN  SelectSeq(txt, NotComma)

\* The value of a run of digits read from the left.
RECURSIVE digits_value(_)
digits_value(txt) ==
    IF txt = <<>> THEN 0
    ELSE 10 * digits_value(SubSeq(txt, 1, Len(txt) - 1))
         + ((CHOOSE i \in 1..10 : Digits[i] = txt[Len(txt)]) - 1)

\* Variant of to_numeric that does not parse negative numbers.
to_numeric_mut(txt) ==
    IF txt # <<>> /\ \A i \in 1..Len(txt) : txt[i] \in DigitSet
    THEN IntCell(digits_value(txt))
    ELSE NullCell

\* pd.to_numeric(..., errors="coerce") on one text: an optional sign and
\* digits parse to the number, anything else to NaN.
to_numeric(txt) ==
    LET body == IF txt # <<>> /\ txt[1] = "-" THEN SubSeq(txt, 2, Len(txt)) ELSE txt
    IN  IF body # <<>> /\ \A i \in 1..Len(body) : body[i] \in DigitSet
        THEN IntCell(IF body = txt THEN digits_value(body) ELSE 0 - digits_value(body))
        ELSE NullCell

\* QuarterRevenueType.model_fields.
QuarterRevenueFields ==
    {"Year", "Season", "CompanyCode", "TYPEK", "CompanyName", "Industry", "EPS",
     "ParValue", "Revenue", "OperatingIncome", "NonOperatingIncome", "NetIncome"}

numeric_cols == {"EPS", "Revenue", "OperatingIncome", "NonOperatingIncome", "NetIncome"}

\* QuarterRevenueUploader._clean_dataframe on a table [columns, rows] whose
\* headers map to different fields: the cleaned rows, each a function from
\* field name to cell; <<>> is the empty frame.
_clean_dataframe(df, year, season, typek) ==
    LET column_mapping == _build_column_mapping(df.columns)
        renamed == [i \in 1..Len(df.columns) |->
                       IF df.columns[i] \in DOMAIN column_mapping
                       THEN column_mapping[df.columns[i]] ELSE "unmapped"]
        mapped_cols == {i \in 1..Len(renamed) : renamed[i] \in QuarterRevenueFields}
        fields == {renamed[i] : i \in mapped_cols}
        col_of(f) == CHOOSE i \in mapped_cols : renamed[i] = f
        starts_digit(row) == str_match_digit(astype_str(row[col_of("CompanyCode")]))
        kept == SelectSeq(df.rows, starts_digit)
        cleaned(row, f) ==
            IF f = "CompanyCode" THEN StrCell(astype_str(row[col_of(f)]))
            ELSE IF f \in numeric_cols
            THEN to_numeric(str_replace_comma(astype_str(replace_dashes(row[col_of(f)]))))
            ELSE replace_dashes(row[col_of(f)])
    IN  IF "CompanyCode" \notin fields THEN <<>>
        ELSE [k \in 1..Len(kept) |->
                 [f \in fields \cup {"Year", "Season", "TYPEK"} |->
                     IF f = "Year" THEN IntCell(year)
                     ELSE IF f = "Season" THEN IntCell(season)
                     ELSE IF f = "TYPEK" THEN StrCell(typek)
                     ELSE cleaned(kept[k], f)]]

\* The cells a code column and a numeric column may hold.
CodeCellInputs ==
    {StrCell(<<"2", "3", "3", "0">>), IntCell(8069),
     StrCell(<<"u5408", "u8A08">>), StrCell(<<>>)}

NumericCellInputs ==
    {IntCell(100), StrCell(<<"1", ",", "2", "3", "4">>), StrCell(<<"-", "5">>),
     StrCell(<<"-", "-">>), StrCell(<<"uFF0D">>), StrCell(<<"N", "/", "A">>),
     StrCell(<<"-">>)}

\* The header rows of the tables, and the rows under a three-column header.
TableColumnInputs ==
    {<<H_CompanyCode, H_CompanyName, H_Revenue>>,
     <<H_CompanyCode, H_Remark, H_EPS_Unit>>,
     <<H_CompanyName, H_Remark, H_Revenue>>}

RowInputs ==
    {<<c, StrCell(<<"T", "S", "M", "C">>), v>> :
        c \in CodeCellInputs, v \in NumericCellInputs}

TableInputs ==
    {[columns |-> cols, rows |-> rows] :
        cols \in TableColumnInputs,
        rows \in UNION {[1..n -> RowInputs] : n \in 0..MaxRows}}

\* SpecClean: one call of _clean_dataframe on any table.
InitClean ==
    /\ InitProgram(0)
    /\ thr = <<>>
    /\ \E table \in TableInputs :
         world = [mode |-> "clean", table |-> table, year |-> 113, season |-> 1]

clean_clean_dataframe ==
    /\ world.mode = "clean"
    /\ ncalls = 0
    /\ last' = [result |-> _clean_dataframe(world.table, world.year, world.season,
                                            <<"s", "i", "i">>)]
    /\ ncalls' = 1
    /\ UNCHANGED <<tracker_vars, db, world, fetches, appends, thr, quarter>>

NextClean == clean_clean_dataframe

SpecClean == InitClean /\ [][NextClean]_vars

\* ------------------------------------------------------ quarterly uploads

\* Variant of check_uploaded that never finds a marker.
check_uploaded_mut(store, year, season) == FALSE

\* QuarterRevenueUploader.check_uploaded: SELECT COUNT(*) ... > 0.
check_uploaded(store, year, season) ==
    Cardinality({i \in 1..Len(store.QuarterRevenueUploaded) :
                    /\ store.QuarterRevenueUploaded[i].Year = year
                    /\ store.QuarterRevenueUploaded[i].Season = season}) > 0

\* A Python assignment "x = v" followed by the statements Op that read x: v
\* is computed once, and Op works on the value.
assign(v, Op(_)) == CHOOSE result \in {Op(x) : x \in {v}} : TRUE

\* pd.concat(all_dfs, ignore_index=True): the rows in order, over the union of
\* the columns, NaN where a frame has no such column.
RECURSIVE concat_from(_, _, _)
concat_from(all_dfs, columns, i) ==
    IF i > Len(all_dfs) THEN <<>>
    ELSE [k \in 1..Len(all_dfs[i]) |->
             [f \in columns |-> IF f \in DOMAIN all_dfs[i][k]
                                THEN all_dfs[i][k][f] ELSE NullCell]]
         \o concat_from(all_dfs, columns, i + 1)

concat(all_dfs) ==
    concat_from(all_dfs, UNION {DOMAIN all_dfs[i][1] : i \in 1..Len(all_dfs)}, 1)

\* Variant of crawl_data that returns a row when the portal gave none.
crawl_data_mut(page, year, season) ==
    <<[CompanyCode |-> StrCell(<<"0">>), Year |-> IntCell(year),
       Season |-> IntCell(season), TYPEK |-> StrCell(<<"s", "i", "i">>)]>>

\* QuarterRevenueUploader.crawl_data on what the portal answers: page.kind is
\* "fail" when _fetch_html raises, "no_table" when read_html raises ValueError,
\* "tables" when read_html returns page.tables. <<>> is the empty frame.
crawl_data(page, year, season) ==
    IF page.kind = "fail" THEN <<>>
    ELSE IF page.kind = "no_table" THEN <<>>
    ELSE IF page.tables = <<>> THEN <<>>
    ELSE LET cleaned == [i \in 1..Len(page.tables) |->
                            _clean_dataframe(page.tables[i], year, season,
                                             <<"s", "i", "i">>)]
             NotEmpty(frame) == frame # <<>>
         IN  assign(SelectSeq(cleaned, NotEmpty),
                    LAMBDA all_dfs : IF all_dfs = <<>> THEN <<>> ELSE concat(all_dfs))

\* QuarterRevenueType(**record): the str fields refuse a number; a missing
\* optional field is None.
QuarterRevenueType(record) ==
    LET str_fields == {"CompanyCode", "TYPEK", "CompanyName", "Industry", "ParValue"}
        bad == \E f \in DOMAIN record \cap str_fields : record[f].kind = "int"
    IN  [raised |-> bad,
         row |-> [f \in QuarterRevenueFields |->
                     IF f \in DOMAIN record THEN record[f] ELSE NullCell]]

\* QuarterRevenueUploader.check_schema.
quarter_check_schema(df) ==
    LET validated == [i \in 1..Len(df) |-> QuarterRevenueType(df[i])]
    IN  [raised |-> \E i \in 1..Len(df) : validated[i].raised,
         df |-> [i \in 1..Len(df) |-> validated[i].row]]

\* UNIQUE KEY (Year, Season, CompanyCode) of the table QuarterRevenue.
uk_year_season_company(rows) ==
    \A i, k \in 1..Len(rows) :
        (/\ rows[i].Year = rows[k].Year
         /\ rows[i].Season = rows[k].Season
         /\ rows[i].CompanyCode = rows[k].CompanyCode) => i = k

\* Variant of upload(year, season) that records the quarter as uploaded
\* before any row is stored.
quarter_upload_marker_first_mut(store, year, season, page, fault) ==
    LET marked == [store EXCEPT
                      !.retrievals = @ + 1,
                      !.QuarterRevenueUploaded =
                          Append(@, [Year |-> year, Season |-> season,
                                     UploadedAt |-> isoformat(now), RecordCount |-> 1])]
    IN  [raised |-> fault # "none", ret |-> IF fault = "none" THEN 1 ELSE 0,
         store |-> marked]

\* QuarterRevenueUploader.upload(year, season): the value returned (or that it
\* raised) and the tables afterwards. fault names the statement the database
\* rejects; retrievals counts the calls of _fetch_html.
quarter_upload(store, year, season, page, fault) ==
    LET fetched == [store EXCEPT !.retrievals = @ + 1]
        marker(record_count) ==
            [Year |-> year, Season |-> season, UploadedAt |-> isoformat(now),
             RecordCount |-> record_count]
        persist(rows, record_count) ==
            LET appended == [fetched EXCEPT !.QuarterRevenue = rows]
            IN  IF fault = "to_sql" \/ ~uk_year_season_company(rows)
                THEN [raised |-> TRUE, ret |-> 0, store |-> fetched]
                ELSE IF fault = "marker"
                THEN [raised |-> TRUE, ret |-> 0, store |-> appended]
                ELSE [raised |-> FALSE, ret |-> record_count,
                      store |-> [appended EXCEPT !.QuarterRevenueUploaded =
                                                     Append(@, marker(record_count))]]
        validate(df) ==
            assign(quarter_check_schema(df),
                   LAMBDA checked :
                       IF checked.raised
                       THEN [raised |-> TRUE, ret |-> 0, store |-> fetched]
                       ELSE assign(fetched.QuarterRevenue \o checked.df,
                                   LAMBDA rows : persist(rows, Len(checked.df))))
    IN  IF check_uploaded(store, year, season)
        THEN [raised |-> FALSE, ret |-> 0, store |-> store]
        ELSE assign(crawl_data(page, year, season),
                    LAMBDA df :
                        IF df = <<>>
                        THEN [raised |-> FALSE, ret |-> 0, store |-> fetched]
                        ELSE validate(df))

\* Tables of an answer of the portal: one company and a subtotal line, another
\* company, a table without the code column, a table of subtotal lines only,
\* and a table whose name column was read as numbers.
T_Valid ==
    [columns |-> <<H_CompanyCode, H_CompanyName, H_Revenue>>,
     rows |-> << <<StrCell(<<"2", "3", "3", "0">>), StrCell(<<"T", "S", "M", "C">>),
                   StrCell(<<"1", ",", "2", "3", "4">>)>>,
                 <<StrCell(<<"u5408", "u8A08">>), NullCell, IntCell(100)>> >>]

T_Other ==
    [columns |-> <<H_CompanyCode, H_CompanyName, H_Revenue>>,
     rows |-> << <<IntCell(8069), StrCell(<<"E", "I", "H">>), StrCell(<<"-", "-">>)>> >>]

T_NoCode ==
    [columns |-> <<H_CompanyName, H_Remark, H_Revenue>>,
     rows |-> << <<StrCell(<<"T", "S", "M", "C">>), NullCell, IntCell(100)>> >>]

T_Subtotals ==
    [columns |-> <<H_CompanyCode, H_CompanyName, H_Revenue>>,
     rows |-> << <<StrCell(<<"u5408", "u8A08">>), NullCell, IntCell(100)>> >>]

T_NumName ==
    [columns |-> <<H_CompanyCode, H_CompanyName, H_Revenue>>,
     rows |-> << <<StrCell(<<"2", "3", "3", "0">>), IntCell(2330), IntCell(100)>> >>]

\* What the portal answers to one retrieval.
PageInputs ==
    {[kind |-> "fail", tables |-> <<>>],
     [kind |-> "no_table", tables |-> <<>>],
     [kind |-> "tables", tables |-> <<T_NoCode>>],
     [kind |-> "tables", tables |-> <<T_Subtotals, T_NoCode>>],
     [kind |-> "tables", tables |-> <<T_Valid>>],
     [kind |-> "tables", tables |-> <<T_Subtotals, T_Valid, T_Other>>],
     [kind |-> "tables", tables |-> <<T_Valid, T_Valid>>],
     [kind |-> "tables", tables |-> <<T_NumName>>]}

\* The quarters asked for, as (year, season).
QuarterKeys == {<<113, 1>>, <<113, 2>>}

QuarterFaults == {"none", "to_sql", "marker"}

\* SpecQuarter: calls of QuarterRevenueUploader.upload, one after the other.
InitQuarter ==
    /\ InitProgram(0)
    /\ thr = <<>>
    /\ world = [mode |-> "quarter"]

uploader_quarter_upload ==
    /\ world.mode = "quarter"
    /\ ncalls < MaxCalls
    /\ \E key \in QuarterKeys, page \in PageInputs, fault \in QuarterFaults :
         LET res == quarter_upload(quarter, key[1], key[2], page, fault)
         IN  /\ quarter' = res.store
             /\ last' = [year |-> key[1], season |-> key[2], page |-> page,
                         fault |-> fault, raised |-> res.raised, ret |-> res.ret]
    /\ ncalls' = ncalls + 1
    /\ UNCHANGED <<tracker_vars, db, world, fetches, appends, thr>>

NextQuarter == uploader_quarter_upload

SpecQuarter == InitQuarter /\ [][NextQuarter]_vars

\* ------------------------------------------------- quarterly table set-up

\* The columns of the two CREATE TABLE statements of _ensure_tables.
QuarterRevenueColumns ==
    {"Year", "Season", "CompanyCode", "CompanyName", "Industry", "EPS", "ParValue",
     "Revenue", "OperatingIncome", "NonOperatingIncome", "NetIncome", "TYPEK"}

QuarterRevenueUploadedColumns == {"Year", "Season", "UploadedAt", "RecordCount"}

\* A table that does not exist, and an existing one with its columns and the
\* number of its rows.
NoTable == [exists |-> FALSE, cols |-> {}, rows |-> 0]

Table(cols, rows) == [exists |-> TRUE, cols |-> cols, rows |-> rows]

\* The statement of _ensure_tables the database rejects, if any.
EnsureFaults == {"none", "drop_revenue", "drop_uploaded", "create"}

\* QuarterRevenueUploader._ensure_tables on the tables t: the tables
\* afterwards, the tables it dropped, and whether it raised.  DESCRIBE of a
\* missing table and a rejected DROP raise inside try blocks whose except
\* branch is "pass"; the CREATE statements are outside any try.
ensure_tables(t, fault) ==
    LET rev == t.QuarterRevenue
        upl == t.QuarterRevenueUploaded
        old_revenue == /\ rev.exists
                       /\ ("Season" \notin rev.cols \/ "Industry" \notin rev.cols)
        rebuild_revenue == old_revenue /\ fault # "drop_revenue"
        old_uploaded == upl.exists /\ "Season" \notin upl.cols
        drop_uploaded ==
            /\ fault # "drop_uploaded"
            /\ IF rebuild_revenue THEN upl.exists ELSE old_uploaded
        rev2 == IF rebuild_revenue THEN NoTable ELSE rev
        upl2 == IF drop_uploaded THEN NoTable ELSE upl
        dropped == (IF rebuild_revenue THEN {"QuarterRevenue"} ELSE {})
                       \cup (IF drop_uploaded THEN {"QuarterRevenueUploaded"} ELSE {})
        create(table, cols) == IF table.exists THEN table ELSE Table(cols, 0)
    IN  IF fault = "create"
        THEN [raised |-> TRUE, dropped |-> dropped,
              tables |-> [QuarterRevenue |-> rev2, QuarterRevenueUploaded |-> upl2]]
        ELSE [raised |-> FALSE, dropped |-> dropped,
              tables |-> [QuarterRevenue |-> create(rev2, QuarterRevenueColumns),
                          QuarterRevenueUploaded |->
                              create(upl2, QuarterRevenueUploadedColumns)]]

\* The tables a deployment may hold when an uploader is constructed: none, the
\* current structure, or a structure of an earlier version.
RevenueTables ==
    {NoTable} \cup
    {Table(cols, rows) :
        cols \in {QuarterRevenueColumns,
                  QuarterRevenueColumns \ {"Season"},
                  QuarterRevenueColumns \ {"Industry"},
                  QuarterRevenueColumns \ {"Season", "Industry"}},
        rows \in 0..MaxRows}

UploadedTables ==
    {NoTable} \cup
    {Table(cols, rows) :
        cols \in {QuarterRevenueUploadedColumns,
                  QuarterRevenueUploadedColumns \ {"Season"}},
        rows \in 0..MaxRows}

\* SpecEnsure: QuarterRevenueUploader(conn) constructed time and again on a
\* database that holds any of these tables.
InitEnsure ==
    /\ upload_jobs = <<>>
    /\ req = <<>>
    /\ worker = <<>>
    /\ now = 0
    /\ db = [n \in Sources |-> EmptyStore]
    /\ fetches = [i \in Items |-> 0]
    /\ appends = [i \in Items |-> 0]
    /\ ncalls = 0
    /\ last = None
    /\ thr = <<>>
    /\ world = [mode |-> "ensure"]
    /\ \E rev \in RevenueTables, upl \in UploadedTables :
         quarter = [QuarterRevenue |-> rev, QuarterRevenueUploaded |-> upl]

\* QuarterRevenueUploader.__init__: self._ensure_tables().
uploader_init ==
    /\ world.mode = "ensure"
    /\ ncalls < MaxCalls
    /\ \E fault \in EnsureFaults :
         LET res == ensure_tables(quarter, fault)
         IN  /\ quarter' = res.tables
             /\ last' = [fault |-> fault, raised |-> res.raised, dropped |-> res.dropped]
    /\ ncalls' = ncalls + 1
    /\ UNCHANGED <<tracker_vars, db, world, fetches, appends, thr>>

NextEnsure == uploader_init

SpecEnsure == InitEnsure /\ [][NextEnsure]_vars

\* ------------------------------------------------------ scheduled daily run

\* The sources daily_craw goes through: DB_NAMES in its order, kept to the
\* sources whose databases the model holds.
CrawNames ==
    LET Held(name) == name \in Sources
    IN  SelectSeq(DB_NAMES, Held)

\* sorted(missing_dates): ascending by day, by insertion.
RECURSIVE sorted(_)
sorted(dates) ==
    IF dates = <<>> THEN <<>>
    ELSE LET rest == sorted(Tail(dates))
             Before(d) == d[2] < Head(dates)[2]
             NotBefore(d) == ~Before(d)
         IN  SelectSeq(rest, Before) \o <<Head(dates)>> \o SelectSeq(rest, NotBefore)

\* Variant of get_missing_dates that returns every date of the window.
get_missing_dates_mut(store, today) ==
    [i \in 1..days |-> strftime(today - (i - 1))]

\* Variant of get_missing_dates that looks at the newest day only.
get_missing_dates_newest_mut(store, today) ==
    IF \E k \in 1..Len(store.UploadDate) : store.UploadDate[k].Date = strftime(today)
    THEN <<>>
    ELSE <<strftime(today)>>

\* DailyUpload.get_missing_dates(db_name, days) on the day today: the dates
\* today, today - 1, ... that the SELECT on UploadDate does not return.
get_missing_dates(store, today) ==
    LET date_list == [i \in 1..days |-> strftime(today - (i - 1))]
        uploaded_set == {store.UploadDate[k].Date : k \in
                            {k \in 1..Len(store.UploadDate) :
                                store.UploadDate[k].Date[2] >= date_list[days][2]}}
        Missing(d) == d \notin uploaded_set
    IN  SelectSeq(date_list, Missing)

\* The scheduler thread, the schedule lock and one update-schedule request.
\* pc is the scheduler thread's position: "poll" in its loop outside the
\* lock, "missing" / "sleep" / "upload" inside daily_craw, "died" once an
\* exception has left the loop.  upd is the position of PUT /api/schedule.
\* run_day, clean_day, follows, raised_at and prev_raised remember how the
\* runs went.
IdleScheduler ==
    [lock |-> "free", pc |-> "poll", today |-> days, db_i |-> 1, missing |-> <<>>,
     upd |-> "idle", run_day |-> 0, clean_day |-> 0,
     follows |-> FALSE, raised_at |-> <<>>, prev_raised |-> <<>>]

\* SpecCraw: the process of web_server with its scheduler thread; the crawler
\* holds one record for every date.
InitCraw ==
    /\ InitProgram(0)
    /\ thr = IdleScheduler
    /\ world = [mode |-> "craw", src |-> None,
                feed |-> [d \in Dates |-> <<Rec("2330", "TSMC", IntCell(1))>>]]

\* The faults that may strike a day_upload call of daily_craw.
CrawFaults == {"none", "fetch", "body", "to_sql", "marker"}

\* Midnight passes while no daily_craw run is going on.
midnight ==
    /\ world.mode = "craw"
    /\ thr.pc \in {"poll", "died"}
    /\ thr.today < MaxOrd
    /\ thr' = [thr EXCEPT !.today = @ + 1]
    /\ UNCHANGED <<tracker_vars, db, world, fetches, appends, ncalls, last, quarter>>

\* scheduler_thread: "with schedule_lock: run_pending()" when the daily job is
\* due.  run_pending calls daily_craw in this thread, inside the with block.
scheduler_thread_run_pending ==
    /\ world.mode = "craw"
    /\ thr.pc = "poll"
    /\ thr.lock = "free"
    /\ ncalls < MaxRuns
    /\ thr' = [thr EXCEPT !.lock = "scheduler_thread", !.pc = "missing", !.db_i = 1,
                          !.missing = <<>>, !.run_day = thr.today,
                          !.follows = (thr.clean_day = thr.today), !.clean_day = 0,
                          !.prev_raised = thr.raised_at, !.raised_at = <<>>]
    /\ last' = <<>>
    /\ ncalls' = ncalls + 1
    /\ UNCHANGED <<tracker_vars, db, world, fetches, appends, quarter>>

\* daily_craw, head of the loop over DB_NAMES: get_missing_dates, and
\* "continue" when it returns no date.  A connection failure raises; the
\* exception leaves daily_craw, run_pending, the with block and the thread.
daily_craw_get_missing_dates ==
    /\ world.mode = "craw"
    /\ thr.pc = "missing"
    /\ thr.db_i <= Len(CrawNames)
    /\ \E fault \in {"none", "connect"} :
         LET db_name == CrawNames[thr.db_i]
             missing_dates == get_missing_dates(db[db_name], thr.today)
         IN  IF fault = "connect"
             THEN /\ thr' = [thr EXCEPT !.pc = "died", !.lock = "free"]
                  /\ last' = Append(last, [kind |-> "raise", db |-> db_name])
             ELSE /\ thr' = IF missing_dates = <<>>
                            THEN [thr EXCEPT !.db_i = @ + 1]
                            ELSE [thr EXCEPT !.pc = "sleep",
                                             !.missing = sorted(missing_dates)]
                  /\ last' = Append(last, [kind |-> "get_missing_dates", db |-> db_name,
                                           dates |-> missing_dates,
                                           today |-> thr.today])
    /\ UNCHANGED <<tracker_vars, db, world, fetches, appends, ncalls, quarter>>

\* daily_craw: time.sleep(random.uniform(3, 15)) before a day_upload call.
daily_craw_sleep ==
    /\ world.mode = "craw"
    /\ thr.pc = "sleep"
    /\ thr' = [thr EXCEPT !.pc = "upload"]
    /\ last' = Append(last, [kind |-> "sleep", db |-> CrawNames[thr.db_i],
                             date |-> Head(thr.missing)])
    /\ UNCHANGED <<tracker_vars, db, world, fetches, appends, ncalls, quarter>>

\* daily_craw: upload.day_upload(date, opt) and the step of the inner loop.
\* An exception leaves daily_craw and ends the scheduler thread.
daily_craw_day_upload ==
    /\ world.mode = "craw"
    /\ thr.pc = "upload"
    /\ \E fault \in CrawFaults :
         LET db_name == CrawNames[thr.db_i]
             date == Head(thr.missing)
             item == <<db_name, date>>
             res == day_upload(db_name, db[db_name], date, world.feed[date], fault)
         IN  /\ db' = [db EXCEPT ![db_name] = res.store]
             /\ last' = Append(last, [kind |-> "day_upload", db |-> db_name,
                                      date |-> date, raised |-> res.raised])
             /\ thr' = IF res.raised
                       THEN [thr EXCEPT !.pc = "died", !.lock = "free",
                                        !.raised_at = item]
                       ELSE IF Len(thr.missing) = 1
                       THEN [thr EXCEPT !.pc = "missing", !.missing = <<>>,
                                        !.db_i = @ + 1]
                       ELSE [thr EXCEPT !.pc = "sleep", !.missing = Tail(@)]
    /\ UNCHANGED <<tracker_vars, world, fetches, appends, ncalls, quarter>>

\* daily_craw returns; the with block releases schedule_lock and the loop
\* goes to time.sleep(1).
daily_craw_return ==
    /\ world.mode = "craw"
    /\ thr.pc = "missing"
    /\ thr.db_i > Len(CrawNames)
    /\ thr' = [thr EXCEPT !.pc = "poll", !.lock = "free",
                          !.clean_day = thr.run_day]
    /\ last' = Append(last, [kind |-> "return"])
    /\ UNCHANGED <<tracker_vars, db, world, fetches, appends, ncalls, quarter>>

\* The service is started again after its scheduler thread has died:
\* lifespan starts a new scheduler_thread.
lifespan ==
    /\ world.mode = "craw"
    /\ thr.pc = "died"
    /\ thr' = [thr EXCEPT !.pc = "poll"]
    /\ UNCHANGED <<tracker_vars, db, world, fetches, appends, ncalls, last, quarter>>

\* PUT /api/schedule reaches setup_schedule and asks for schedule_lock.
update_schedule ==
    /\ world.mode = "craw"
    /\ thr.upd = "idle"
    /\ thr' = [thr EXCEPT !.upd = "waiting"]
    /\ UNCHANGED <<tracker_vars, db, world, fetches, appends, ncalls, last, quarter>>

\* setup_schedule: "with schedule_lock:" is entered when the lock is free.
setup_schedule_acquire ==
    /\ world.mode = "craw"
    /\ thr.upd = "waiting"
    /\ thr.lock = "free"
    /\ thr' = [thr EXCEPT !.upd = "locked", !.lock = "update_schedule"]
    /\ UNCHANGED <<tracker_vars, db, world, fetches, appends, ncalls, last, quarter>>

\* setup_schedule: clear, register daily_craw, leave the with block; the
\* handler returns.
setup_schedule_release ==
    /\ world.mode = "craw"
    /\ thr.upd = "locked"
    /\ thr' = [thr EXCEPT !.upd = "done", !.lock = "free"]
    /\ UNCHANGED <<tracker_vars, db, world, fetches, appends, ncalls, last, quarter>>

NextCraw ==
    \/ midnight
    \/ scheduler_thread_run_pending
    \/ daily_craw_get_missing_dates
    \/ daily_craw_sleep
    \/ daily_craw_day_upload
    \/ daily_craw_return
    \/ lifespan
    \/ update_schedule
    \/ setup_schedule_acquire
    \/ setup_schedule_release

SpecCraw == InitCraw /\ [][NextCraw]_vars

\* ------------------------------------------------------------------ claims

Running == {j \in JobIds : upload_jobs[j].status = "running"}

Terminal == {"completed", "failed"}

\* The first step of request r's handler is taken in this step.
Arrives(r) == req[r].pc = "new" /\ req'[r].pc # "new"

\* Number of dates and of sources of a daily job, read off its request.
NDates(job) == job.end_date[2] - job.start_date[2] + 1

NSources(job) == Len(job.databases)

\* The items of a daily job in the order the claim gives them: source by
\* source, and within one source date by date.
ExpectedItems(job) ==
    [n \in 1..(NDates(job) * NSources(job)) |->
        <<job.databases[((n - 1) \div NDates(job)) + 1],
          DateStr(job.start_date[2] + ((n - 1) % NDates(job)))>>]

\* The <<source, date>> pairs of a call log.
CallItems(calls) == [n \in 1..Len(calls) |-> <<calls[n][1], calls[n][2]>>]

\* C1: in every reachable state at most one entry of upload_jobs has status
\* "running".
C1_AtMostOneRunning == Cardinality(Running) <= 1

\* C2: the running-job check and the insert of the new entry are one
\* critical section: while a request stands between its check and its
\* insert, no other thread changes upload_jobs and no other request makes
\* its own check.
C2_CheckAndInsertAtomic ==
    [][\A r \in DOMAIN req :
          (req[r].pc = "checked" /\ req'[r].pc = "checked")
              => /\ upload_jobs' = upload_jobs
                 /\ \A r2 \in DOMAIN req \ {r} : req'[r2].pc = "checked"
                                                    => req[r2].pc = "checked"]_vars

C4_StatusMachine ==
    [][/\ Len(upload_jobs') >= Len(upload_jobs)
       /\ \A j \in 1..Len(upload_jobs') :
            IF j > Len(upload_jobs)
            THEN upload_jobs'[j].status = "pending"
            ELSE LET s == upload_jobs[j].status
                     t == upload_jobs'[j].status
                 IN  /\ s # t => <<s, t>> \in {<<"pending", "running">>,
                                               <<"running", "completed">>,
                                               <<"running", "failed">>}
                     /\ (s = "pending" /\ t = "running")
                            => /\ worker[j].pc = "start"
                               /\ worker'[j].pc # "start"
                               /\ \A k \in DOMAIN worker \ {j} : worker'[k] = worker[k]
                     /\ s \in Terminal
                            => /\ t = s
                               /\ upload_jobs'[j].finished_at = upload_jobs[j].finished_at]_vars

\* One job has completed and another has failed, both with a finish time.
C4_Witness ==
    \E j, k \in JobIds :
        /\ upload_jobs[j].status = "completed" /\ upload_jobs[j].finished_at # None
        /\ upload_jobs[k].status = "failed" /\ upload_jobs[k].finished_at # None

\* Loop iterations of job j's worker that have ended: an item counts as
\* processed once its iteration, counter update included, is over.
Processed(j) == Len(worker[j].calls) - (IF worker[j].pc = "count" THEN 1 ELSE 0)

\* C5: for a daily job over D dates and S sources, total is D*S from the
\* moment the worker has started; day_upload is invoked once per item, in
\* order; completed equals the number of items processed and never exceeds
\* total; a completed job has completed = total.
C5_Counters ==
    \A j \in JobIds :
        IsDaily(upload_jobs[j]) =>
            LET job == upload_jobs[j]
                n == NDates(job) * NSources(job)
            IN  /\ job.status # "pending" => job.total = n
                /\ job.completed = Processed(j)
                /\ job.completed <= job.total
                /\ Len(worker[j].calls) <= n
                /\ CallItems(worker[j].calls)
                       = SubSeq(ExpectedItems(job), 1, Len(worker[j].calls))
                /\ job.status = "completed"
                       => /\ job.completed = job.total
                          /\ CallItems(worker[j].calls) = ExpectedItems(job)

\* A job over two dates and two sources has completed.
C5_Witness ==
    \E j \in JobIds :
        /\ IsDaily(upload_jobs[j])
        /\ upload_jobs[j].status = "completed"
        /\ NDates(upload_jobs[j]) = 2 /\ NSources(upload_jobs[j]) = 2
        /\ upload_jobs[j].completed = 4

\* The calls of a log that raised, as <<source, date>> pairs.
RaisedItems(calls) ==
    LET Raised(c) == c[3]
    IN  CallItems(SelectSeq(calls, Raised))

\* C6: each day_upload call that raises adds exactly one error naming its
\* source and date; the worker goes on with the remaining items, in order,
\* and ends with status "completed" whatever the number of errors.
C6_ErrorsRecorded ==
    \A j \in JobIds :
        IsDaily(upload_jobs[j]) =>
            LET job == upload_jobs[j]
            IN  /\ CallItems(job.errors) = RaisedItems(worker[j].calls)
                /\ worker[j].pc = "done"
                       => /\ job.status = "completed"
                          /\ CallItems(worker[j].calls) = ExpectedItems(job)

\* A job of several items has completed with every item in error.
C6_Witness ==
    \E j \in JobIds :
        /\ IsDaily(upload_jobs[j])
        /\ upload_jobs[j].status = "completed"
        /\ upload_jobs[j].total >= 2
        /\ Len(upload_jobs[j].errors) = upload_jobs[j].total

\* C7: a worker that an exception has ended, one raised before the item loop
\* included, leaves its job "failed" with an error message and a finish time.
C7_SetupErrorMarksFailed ==
    \A j \in JobIds :
        worker[j].pc = "died"
            => /\ upload_jobs[j].status = "failed"
               /\ "error" \in DOMAIN upload_jobs[j]
               /\ upload_jobs[j].finished_at # None

\* C8: under fair scheduling every accepted job eventually has status
\* "completed" or "failed" with finished_at set.
C8_EveryJobFinishes ==
    \A j \in 1..MaxReqs :
        (j \in JobIds)
            ~> (/\ j \in JobIds
                /\ upload_jobs[j].status \in Terminal
                /\ upload_jobs[j].finished_at # None)

\* UploadDate holds a marker for the date.
HasMarker(store, date) ==
    \E i \in 1..Len(store.UploadDate) : store.UploadDate[i].Date = date

\* C9: upload(date) for a date that has a marker sends no request to the
\* crawler, returns, and leaves DailyPrice, StockName and UploadDate as they are.
C9_MarkedDateSkipped ==
    [][(ncalls' = ncalls + 1 /\ HasMarker(db[world.src], last'.date))
          => /\ db' = db
             /\ fetches' = fetches
             /\ ~last'.raised]_vars

\* upload(date) has just returned without a fetch for a date that has a marker.
C9_Witness ==
    /\ ncalls > 0
    /\ HasMarker(db[world.src], last.date)
    /\ last.fetched = 0
    /\ fetches[<<world.src, last.date>>] = 1

\* C10: across any sequence of upload(date) calls for one source, failed
\* calls and retries included, the records of one date are appended to
\* DailyPrice at most once.
C10_AppendedAtMostOnce == \A it \in Items : appends[it] <= 1

\* The rows of UploadDate that carry the date.
Markers(store, date) ==
    {i \in 1..Len(store.UploadDate) : store.UploadDate[i].Date = date}

\* C11: under any interleaving of upload(date) calls for one source,
\* UploadDate never holds two markers for one date, and no caller is about
\* to insert a marker for a date that already has one.
C11_MarkerWrittenOnce ==
    \A date \in Dates :
        /\ Cardinality(Markers(db[world.src], date)) <= 1
        /\ \A t \in Callers :
               (thr[t].pc = "mark" /\ thr[t].date = date)
                   => Markers(db[world.src], date) = {}

\* The direct call upload(last'.date) is made in this step.
Called == ncalls' = ncalls + 1

\* The records the crawler returns to a call for the date under the fault.
Fetched(date, fault) ==
    IF fault \in {"fetch", "body"} THEN <<>> ELSE world.feed[date]

\* Every record of the batch passes the schema.
AllValid(batch) == \A i \in 1..Len(batch) : batch[i].value.kind # "text"

\* new is old followed by exactly the rows of the batch, validated.
AppendedBatch(old, new, batch, date) ==
    /\ Len(new) = Len(old) + Len(batch)
    /\ SubSeq(new, 1, Len(old)) = old
    /\ \A i \in 1..Len(batch) :
          /\ new[Len(old) + i].Date = date
          /\ new[Len(old) + i].code = batch[i].code
          /\ new[Len(old) + i].value = batch[i].value.v

\* C12: a call of upload(date) writes at most one marker, for its date, and
\* returns after it; the marker has Open = TRUE only if the fetch returned
\* records that all passed validation and were appended to DailyPrice by the
\* call, and Open = FALSE only if the fetch returned nothing, and then the
\* call wrote no DailyPrice and no StockName row.
C12_MarkerLast ==
    [][Called =>
        LET old == db[world.src]
            new == db'[world.src]
            date == last'.date
            batch == Fetched(date, last'.fault)
            n == Len(old.UploadDate)
        IN  /\ Len(new.UploadDate) \in {n, n + 1}
            /\ SubSeq(new.UploadDate, 1, n) = old.UploadDate
            /\ Len(new.UploadDate) = n + 1
                   => /\ new.UploadDate[n + 1].Date = date
                      /\ ~last'.raised
                      /\ IF new.UploadDate[n + 1].Open
                         THEN /\ Len(batch) >= 1
                              /\ AllValid(batch)
                              /\ AppendedBatch(old.DailyPrice, new.DailyPrice,
                                               batch, date)
                         ELSE /\ Len(batch) = 0
                              /\ new.DailyPrice = old.DailyPrice
                              /\ new.StockName = old.StockName]_vars

\* One date is marked as a trading day with its rows in DailyPrice, another
\* as a day without data.
C12_Witness ==
    /\ world.mode = "upload"
    /\ \E i, k \in 1..Len(db[world.src].UploadDate) :
          /\ db[world.src].UploadDate[i].Open
          /\ ~db[world.src].UploadDate[k].Open
    /\ db[world.src].DailyPrice # <<>>

\* The crawler request of a call struck by the fault fails: no record list
\* comes back under the "data" key of the body.
RequestFails(fault) == fault \in {"fetch", "body"}

\* C13: when the crawler request fails, upload(date) does not raise and
\* writes a marker with Open = FALSE for the date; and a date that has such
\* a marker is not fetched again.
C13_FailedFetchMarked ==
    [][Called =>
        LET old == db[world.src]
            new == db'[world.src]
            date == last'.date
        IN  /\ (RequestFails(last'.fault) /\ Markers(old, date) = {})
                   => /\ ~last'.raised
                      /\ new.UploadDate =
                             Append(old.UploadDate, [Date |-> date, Open |-> FALSE])
            /\ (\E i \in Markers(old, date) : ~old.UploadDate[i].Open)
                   => fetches' = fetches]_vars

\* C14: a call of upload(date) whose fetched batch holds a record that fails
\* validation raises and leaves DailyPrice, StockName and UploadDate as
\* they were.
C14_InvalidBatchPersistsNothing ==
    [][(/\ Called
        /\ Markers(db[world.src], last'.date) = {}
        /\ ~AllValid(Fetched(last'.date, last'.fault)))
           => /\ last'.raised
              /\ db' = db]_vars

\* The codes of a batch, and of the rows of StockName.
Codes(rows) == {rows[i].code : i \in 1..Len(rows)}

\* The uploader of the source sets both stock columns.
DeclaresStockColumns(name) == name = "TWSE"

\* The call inserts exactly the codes of the batch that StockName lacks, one
\* row per code after the rows already there, with one commit when there is
\* such a code and none otherwise; a call that raises inserts nothing.
InsertsNewCodes(name) ==
    LET old == db[name].StockName
        new == db'[name].StockName
        fresh == Codes(world.feed[DateStr(1)]) \ Codes(old)
    IN  /\ SubSeq(new, 1, Len(old)) = old
        /\ IF last'.raised
           THEN new = old /\ fresh # {}
           ELSE /\ Len(new) = Len(old) + Cardinality(fresh)
                /\ Codes(new) = Codes(old) \cup fresh
                /\ last'.inserted = Cardinality(fresh)
                /\ last'.commits = (IF fresh = {} THEN 0 ELSE 1)

\* The call follows one that returned normally, and inserts and commits nothing.
SecondCallInsertsNothing ==
    (ncalls > 0 /\ ~last.raised)
        => /\ db' = db
           /\ last'.inserted = 0
           /\ last'.commits = 0

Occurs(fragment, txt) ==
    \E off \in 0..(Len(txt) - Len(fragment)) :
        \A i \in 1..Len(fragment) : txt[off + i] = fragment[i]

\* The positions in COLUMN_KEYWORD_MAPPING of the fragments a header holds.
Hits(header) ==
    {k \in 1..Len(COLUMN_KEYWORD_MAPPING) : Occurs(COLUMN_KEYWORD_MAPPING[k][1], header)}

\* C18: _build_column_mapping gives each header the field of the first
\* fragment, in COLUMN_KEYWORD_MAPPING order, that occurs in it, and leaves
\* out the headers that hold no fragment; a fragment that contains another
\* one stands before it; and the six revenue-table headers get six different
\* fields, NonOperatingIncome for the non-operating header.
C18_FirstFragmentWins ==
    (world.mode = "mapping" /\ ncalls = 1) =>
        LET m == last.mapping
            cols == world.columns
        IN  /\ DOMAIN m \subseteq {cols[i] : i \in 1..Len(cols)}
            /\ \A i \in 1..Len(cols) :
                  IF Hits(cols[i]) = {}
                  THEN cols[i] \notin DOMAIN m
                  ELSE /\ cols[i] \in DOMAIN m
                       /\ \E k \in Hits(cols[i]) :
                             /\ \A n \in Hits(cols[i]) : k <= n
                             /\ m[cols[i]] = COLUMN_KEYWORD_MAPPING[k][2]
            /\ \A j, k \in 1..Len(COLUMN_KEYWORD_MAPPING) :
                  (j # k /\ Occurs(COLUMN_KEYWORD_MAPPING[k][1],
                                   COLUMN_KEYWORD_MAPPING[j][1])) => j < k
            /\ cols = RevenueHeaders
                  => /\ Cardinality({m[cols[i]] : i \in 1..6}) = 6
                     /\ m[H_NonOperatingIncome] = "NonOperatingIncome"
                     /\ m[H_Revenue] = "Revenue"
                     /\ m[H_OperatingIncome] = "OperatingIncome"

\* The six revenue-table headers have been mapped.
C18_Witness ==
    /\ world.mode = "mapping"
    /\ ncalls = 1
    /\ world.columns = RevenueHeaders
    /\ Cardinality(DOMAIN last.mapping) = 6

\* The field a header stands for: that of the first fragment it holds.
FieldOf(header) ==
    IF Hits(header) = {} THEN "none"
    ELSE COLUMN_KEYWORD_MAPPING[CHOOSE k \in Hits(header) :
                                    \A n \in Hits(header) : k <= n][2]

DigitVal ==
    [c \in {"0", "1", "2", "3", "4", "5", "6", "7", "8", "9"} |->
        CASE c = "0" -> 0 [] c = "1" -> 1 [] c = "2" -> 2 [] c = "3" -> 3
          [] c = "4" -> 4 [] c = "5" -> 5 [] c = "6" -> 6 [] c = "7" -> 7
          [] c = "8" -> 8 [] c = "9" -> 9]

\* The number a run of digits denotes, read digit by digit into acc.
RECURSIVE LeftValue(_, _)
LeftValue(txt, acc) ==
    IF txt = <<>> THEN acc ELSE LeftValue(Tail(txt), 10 * acc + DigitVal[Head(txt)])

\* What a numeric cell has to become: the number it denotes once the
\* thousands separators are gone, or null for a dash placeholder and for
\* text that denotes no number.
ExpectedNumber(cell) ==
    IF cell.kind = "int" THEN IntCell(cell.v)
    ELSE LET NoSep(c) == c # ","
             stripped == SelectSeq(cell.v, NoSep)
             neg == stripped # <<>> /\ Head(stripped) = "-"
             body == IF neg THEN Tail(stripped) ELSE stripped
         IN  IF \/ cell.v \in {<<"-", "-">>, <<"uFF0D">>, <<"u2015">>, <<"u2014">>}
                \/ body = <<>>
                \/ \E i \in 1..Len(body) : body[i] \notin DOMAIN DigitVal
             THEN NullCell
             ELSE IntCell(IF neg THEN 0 - LeftValue(body, 0) ELSE LeftValue(body, 0))

\* The code cell, as text, starts with a digit.
StartsWithDigit(cell) ==
    \/ cell.kind = "int" /\ cell.v >= 0
    \/ cell.kind = "str" /\ cell.v # <<>> /\ Head(cell.v) \in DOMAIN DigitVal

\* C19: _clean_dataframe gives the empty result when no header maps to
\* CompanyCode; otherwise its rows are, in order, the input rows whose code
\* starts with a digit, each with the code as text, with Year, Season and
\* TYPEK set, and with every numeric cell turned into its number or null.
C19_CleanedRows ==
    (world.mode = "clean" /\ ncalls = 1) =>
        LET t == world.table
            out == last.result
            codeCols == {i \in 1..Len(t.columns) : FieldOf(t.columns[i]) = "CompanyCode"}
        IN  IF codeCols = {} THEN out = <<>>
            ELSE LET c == CHOOSE i \in codeCols : TRUE
                     keptIdx == {i \in 1..Len(t.rows) : StartsWithDigit(t.rows[i][c])}
                     Nth(k) == CHOOSE i \in keptIdx :
                                   Cardinality({j \in keptIdx : j <= i}) = k
                 IN  /\ Len(out) = Cardinality(keptIdx)
                     /\ \A k \in 1..Len(out) :
                           LET row == t.rows[Nth(k)]
                           IN  /\ out[k]["Year"] = IntCell(world.year)
                               /\ out[k]["Season"] = IntCell(world.season)
                               /\ out[k]["TYPEK"] = StrCell(<<"s", "i", "i">>)
                               /\ out[k]["CompanyCode"].kind = "str"
                               /\ row[c].kind = "str"
                                     => out[k]["CompanyCode"] = row[c]
                               /\ row[c].kind = "int"
                                     => LeftValue(out[k]["CompanyCode"].v, 0) = row[c].v
                               /\ \A i \in 1..Len(t.columns) :
                                     FieldOf(t.columns[i]) \in
                                         {"EPS", "Revenue", "OperatingIncome",
                                          "NonOperatingIncome", "NetIncome"}
                                       => out[k][FieldOf(t.columns[i])]
                                              = ExpectedNumber(row[i])

\* A table of two rows has been cleaned: the subtotal row is gone, and the
\* revenue "1,234" of the row that stays has become 1234.
C19_Witness ==
    /\ world.mode = "clean"
    /\ ncalls = 1
    /\ Len(world.table.rows) = 2
    /\ Len(last.result) = 1
    /\ "Revenue" \in DOMAIN last.result[1]
    /\ last.result[1]["Revenue"] = IntCell(1234)

\* The table QuarterRevenueUploaded holds a marker for (year, season).
QuarterMarked(year, season) ==
    \E i \in 1..Len(quarter.QuarterRevenueUploaded) :
        /\ quarter.QuarterRevenueUploaded[i].Year = year
        /\ quarter.QuarterRevenueUploaded[i].Season = season

\* C16: when QuarterRevenueUploaded already holds a marker for (year, season),
\* QuarterRevenueUploader.upload returns 0 without raising, retrieves nothing
\* from the portal and leaves QuarterRevenue and QuarterRevenueUploaded as
\* they were.
C16_MarkedQuarterSkipped ==
    [][(Called /\ world.mode = "quarter"
          /\ QuarterMarked(last'.year, last'.season))
       => (/\ last'.ret = 0
           /\ ~last'.raised
           /\ quarter'.retrievals = quarter.retrievals
           /\ quarter'.QuarterRevenue = quarter.QuarterRevenue
           /\ quarter'.QuarterRevenueUploaded = quarter.QuarterRevenueUploaded)]_vars

\* A quarter uploaded by an earlier call has been asked for again: the call
\* returned 0 and the retrievals are fewer than the calls.
C16_Witness ==
    /\ world.mode = "quarter"
    /\ ncalls > 1
    /\ QuarterMarked(last.year, last.season)
    /\ last.ret = 0
    /\ ~last.raised
    /\ quarter.retrievals < ncalls
    /\ Len(quarter.QuarterRevenue) > 0

\* No table of the page has a row to keep: the page could not be retrieved,
\* or holds no table, or each table lacks the code column or has no row whose
\* code starts with a digit.
NothingSurvives(page) ==
    \/ page.kind \in {"fail", "no_table"}
    \/ \A i \in 1..Len(page.tables) :
          LET t == page.tables[i]
              codeCols == {c \in 1..Len(t.columns) : FieldOf(t.columns[c]) = "CompanyCode"}
          IN  \A c \in codeCols, r \in 1..Len(t.rows) : ~StartsWithDigit(t.rows[r][c])

\* C17: a call of QuarterRevenueUploader.upload for a quarter without marker
\* retrieves from the portal; when the retrieval fails, or the page has no
\* table, or no table survives cleaning, the call returns 0 without raising
\* and leaves QuarterRevenue and QuarterRevenueUploaded as they were, so that
\* the quarter is still without marker and the next call for it retrieves
\* again.
C17_EmptyCrawlWritesNothing ==
    [][(Called /\ world.mode = "quarter"
          /\ ~QuarterMarked(last'.year, last'.season))
       => (/\ quarter'.retrievals = quarter.retrievals + 1
           /\ NothingSurvives(last'.page)
                 => (/\ last'.ret = 0
                     /\ ~last'.raised
                     /\ quarter'.QuarterRevenue = quarter.QuarterRevenue
                     /\ quarter'.QuarterRevenueUploaded
                            = quarter.QuarterRevenueUploaded))]_vars

\* Three calls in a row found nothing to keep, the last one on a page whose
\* tables were all cleaned away; each call retrieved, so one of the two
\* quarters was retrieved a second time after an empty result.
C17_Witness ==
    /\ world.mode = "quarter"
    /\ ncalls >= 3
    /\ quarter.retrievals = ncalls
    /\ last.page.kind = "tables"
    /\ NothingSurvives(last.page)
    /\ last.ret = 0
    /\ ~last.raised
    /\ quarter.QuarterRevenue = <<>>
    /\ quarter.QuarterRevenueUploaded = <<>>

\* C20: a daily job over two consecutive dates and one source, run against
\* a database without markers while the crawler holds ten valid records for
\* each date and nothing fails, ends completed with completed = 2 and
\* total = 2, and leaves in the source's database exactly two UploadDate
\* markers, one per date and both Open, and exactly twenty DailyPrice rows.
C20_EndToEnd ==
    \A j \in JobIds :
        LET job == upload_jobs[j]
        IN  (/\ world.mode = "job"
             /\ IsDaily(job)
             /\ job.start_date = DateStr(1)
             /\ job.end_date = DateStr(2)
             /\ Len(job.databases) = 1
             /\ \A d \in {DateStr(1), DateStr(2)} :
                   Len(world.feed[d]) = 10 /\ AllValid(world.feed[d])
             /\ worker[j].pc \in {"done", "died"}
             /\ \A n \in 1..Len(worker[j].calls) : worker[j].calls[n][4] = "none")
            => LET store == db[job.databases[1]]
               IN  /\ job.status = "completed"
                   /\ job.completed = 2
                   /\ job.total = 2
                   /\ Len(store.UploadDate) = 2
                   /\ \A d \in {DateStr(1), DateStr(2)} :
                         \E i \in 1..2 : store.UploadDate[i] = [Date |-> d, Open |-> TRUE]
                   /\ Len(store.DailyPrice) = 20

\* Such a job has ended: two calls were made, none struck by a fault, and the
\* twenty rows are in the table.
C20_Witness ==
    /\ world.mode = "job"
    /\ \E j \in JobIds :
          /\ IsDaily(upload_jobs[j])
          /\ upload_jobs[j].start_date = DateStr(1)
          /\ upload_jobs[j].end_date = DateStr(2)
          /\ Len(upload_jobs[j].databases) = 1
          /\ Len(world.feed[DateStr(1)]) = 10
          /\ worker[j].pc = "done"
          /\ Len(worker[j].calls) = 2
          /\ \A n \in 1..2 : worker[j].calls[n][4] = "none"
          /\ upload_jobs[j].status = "completed"
          /\ Len(db[upload_jobs[j].databases[1]].DailyPrice) = 20

\* C21: the TWSE, TPEX and MGTS uploaders declare a stock code/name column
\* pair, so a call of register_stock_names that returns leaves every code of
\* the batch in StockName; the TAIFEX uploader declares none, sends no query
\* and leaves StockName as it was.
C21_StockColumnsDeclared ==
    [][(Called /\ world.mode = "registry")
       => LET name == world.src
              batch == world.feed[DateStr(1)]
          IN  /\ (name \in {"TWSE", "TPEX", "MGTS"} /\ ~last'.raised)
                    => Codes(batch) \subseteq Codes(db'[name].StockName)
              /\ name = "TAIFEX"
                    => (/\ last'.queries = 0
                        /\ last'.inserted = 0
                        /\ db'[name].StockName = db[name].StockName)]_vars

\* C22: a quarterly job is tracked as a one-item job: when its upload(year,
\* season) has raised, the job ends with status "completed", with the error
\* appended to its errors list, completed = 1 and total = 1.
C22_QuarterErrorIsItemError ==
    \A j \in JobIds :
        (/\ ~IsDaily(upload_jobs[j])
         /\ worker[j].pc = "done"
         /\ worker[j].calls[1][3])
        => /\ upload_jobs[j].status = "completed"
           /\ Len(upload_jobs[j].errors) = 1
           /\ "total" \in DOMAIN upload_jobs[j]
           /\ "completed" \in DOMAIN upload_jobs[j]
           /\ upload_jobs[j].total = 1
           /\ upload_jobs[j].completed = 1

\* C23: no two invocations of the upload pipeline for one source overlap in
\* time, whether started by a job's worker or by the scheduled daily_craw:
\* at most one caller is between the check_date of upload(date) and the end
\* of that call, so at most one is about to run register_stock_names.
C23_NoOverlapPerSource ==
    /\ Cardinality({t \in Callers : thr[t].pc # "idle"}) <= 1
    /\ Cardinality({t \in Callers : thr[t].pc = "craw"}) <= 1

\* A daily_craw run is in progress.
CrawRunning == thr.pc \in {"missing", "sleep", "upload"}

\* C24: while a daily_craw run is in progress the timer loop is not held up
\* by it: schedule_lock is free, so that scheduler_thread can go on polling
\* and a setup_schedule call that waits for the lock can take it.
C24_TimerLoopNotBlocked ==
    (world.mode = "craw" /\ CrawRunning) => thr.lock = "free"

\* The dates of the window of a day: the day and the days - 1 days before it.
Window(today) == {DateStr(n) : n \in (today - days + 1)..today}

\* The dates of a set in ascending order.
RECURSIVE Ascending(_)
Ascending(dates) ==
    IF dates = {} THEN <<>>
    ELSE LET first == CHOOSE d \in dates : \A e \in dates : d[2] <= e[2]
         IN  <<first>> \o Ascending(dates \ {first})

\* What a run does for one source once get_missing_dates has returned the
\* dates: for each of them in ascending order one sleep, then one day_upload.
RECURSIVE Visits(_, _)
Visits(db_name, asc) ==
    IF asc = <<>> THEN <<>>
    ELSE <<[kind |-> "sleep", db |-> db_name, date |-> Head(asc)],
           [kind |-> "day_upload", db |-> db_name, date |-> Head(asc)]>>
         \o Visits(db_name, Tail(asc))

\* What a run does, source by source, given what get_missing_dates returned
\* for the sources reached so far (events: the get_missing_dates events of
\* the log, in order).
RECURSIVE Plan(_)
Plan(events) ==
    IF events = <<>> THEN <<>>
    ELSE <<Head(events)>>
         \o Visits(Head(events).db,
                   Ascending({Head(events).dates[i] :
                                  i \in 1..Len(Head(events).dates)}))
         \o Plan(Tail(events))

\* The log of a run without its closing "return" or "raise" event, and with
\* the outcome of each call left out.
Done(log) ==
    LET IsStep(e) == e.kind \in {"get_missing_dates", "sleep", "day_upload"}
        steps == SelectSeq(log, IsStep)
    IN  [n \in 1..Len(steps) |->
            IF steps[n].kind = "day_upload"
            THEN [kind |-> "day_upload", db |-> steps[n].db, date |-> steps[n].date]
            ELSE steps[n]]

\* C27: daily_craw visits the sources in DB_NAMES order; what
\* get_missing_dates returns for a source is the dates of the window that
\* have no marker; for each of these dates, in ascending order, the run
\* sleeps once and then calls day_upload once, and a source without such a
\* date gets neither; a run that returns has done so for every source.
C27_CrawOrder ==
    [][(world.mode = "craw" /\ last' # last /\ ncalls' = ncalls /\ ncalls > 0)
       => LET log == last'
              IsQuery(e) == e.kind = "get_missing_dates"
              queries == SelectSeq(log, IsQuery)
              plan == Plan(queries)
              done == Done(log)
          IN  /\ Len(queries) <= Len(CrawNames)
              /\ \A i \in 1..Len(queries) :
                    /\ queries[i].db = CrawNames[i]
                    /\ Len(queries[i].dates)
                           = Cardinality({queries[i].dates[k] :
                                              k \in 1..Len(queries[i].dates)})
              /\ Len(done) <= Len(plan)
              /\ done = SubSeq(plan, 1, Len(done))
              /\ log[Len(log)].kind = "get_missing_dates"
                    => {log[Len(log)].dates[k] : k \in 1..Len(log[Len(log)].dates)}
                           = {d \in Window(thr.today) :
                                  ~HasMarker(db[log[Len(log)].db], d)}
              /\ log[Len(log)].kind = "return"
                    => /\ Len(queries) = Len(CrawNames)
                       /\ done = plan]_vars

\* A run has returned after an upload for each of two dates of one source
\* and for a date of another.
C27_Witness ==
    /\ world.mode = "craw"
    /\ ncalls > 0
    /\ Len(last) > 0
    /\ last[Len(last)].kind = "return"
    /\ \E i, k, n \in 1..Len(last) :
          /\ i < k /\ k < n
          /\ last[i].kind = "day_upload"
          /\ last[k].kind = "day_upload"
          /\ last[n].kind = "day_upload"
          /\ last[i].db = last[k].db
          /\ last[k].db # last[n].db

Raises ==
    /\ world.mode = "craw"
    /\ ncalls' = ncalls
    /\ Len(last') = Len(last) + 1
    /\ \/ last'[Len(last')].kind = "raise"
       \/ last'[Len(last')].kind = "day_upload" /\ last'[Len(last')].raised

\* An exception leaves daily_craw: the run is over, the scheduler thread has
\* left its loop, and the date whose day_upload raised has no marker.
RaiseEndsRun ==
    Raises => /\ thr'.pc = "died"
              /\ last'[Len(last')].kind = "day_upload"
                    => ~HasMarker(db'[last'[Len(last')].db], last'[Len(last')].date)

\* No event of the log follows one that raised.
NothingAfterRaise ==
    (world.mode = "craw" /\ ncalls > 0)
    => \A n \in 1..(Len(last) - 1) :
           /\ last[n].kind # "raise"
           /\ last[n].kind = "day_upload" => ~last[n].raised

\* get_missing_dates answers in this step for the source whose day_upload
\* raised in the run before.
AsksAgain ==
    /\ world.mode = "craw"
    /\ ncalls' = ncalls
    /\ thr.prev_raised # <<>>
    /\ Len(last') = Len(last) + 1
    /\ last'[Len(last')].kind = "get_missing_dates"
    /\ last'[Len(last')].db = thr.prev_raised[1]

\* The date that raised in the run before is among the dates returned.
SelectedAgain ==
    \E k \in 1..Len(last'[Len(last')].dates) :
        last'[Len(last')].dates[k] = thr.prev_raised[2]

\* C29 as stated: an exception of get_missing_dates or day_upload ends the
\* daily_craw run at once, nothing is processed after it, the date that
\* raised is left without a marker, and the next run selects that date again.
C29_RaisedDateSelectedByNextRun ==
    [][/\ RaiseEndsRun
       /\ NothingAfterRaise'
       /\ AsksAgain => SelectedAgain]_vars

\* C29 as amended: ..., and the next run selects that date again if the date
\* is still within the window of the day on which that run asks.
C29_RaisedDateSelectedWithinWindow ==
    [][/\ RaiseEndsRun
       /\ NothingAfterRaise'
       /\ (AsksAgain /\ thr.prev_raised[2] \in Window(thr.today)) => SelectedAgain]_vars

\* The second run has asked for the dates of the source whose day_upload
\* raised in the first run, and has been given the date that raised.
C29_Witness ==
    /\ world.mode = "craw"
    /\ ncalls = 2
    /\ thr.prev_raised # <<>>
    /\ \E n \in 1..Len(last) :
          /\ last[n].kind = "get_missing_dates"
          /\ last[n].db = thr.prev_raised[1]
          /\ \E k \in 1..Len(last[n].dates) : last[n].dates[k] = thr.prev_raised[2]

\* C25: every pipeline invocation made by a job, a day_upload call or the
\* call of the quarterly job, opens at most one connection and has closed
\* each connection it opened when it ends, whether it returned or raised.
C25_ConnectionClosed ==
    world.mode = "job"
    => \A j \in JobIds :
           \A n \in 1..Len(worker[j].calls) :
               /\ worker[j].calls[n][5][1] <= 1
               /\ worker[j].calls[n][5][2] = worker[j].calls[n][5][1]

\* The rows of the table QuarterRevenue that belong to (year, season).
QuarterRows(rows, year, season) ==
    LET Belongs(r) == r.Year = IntCell(year) /\ r.Season = IntCell(season)
    IN  SelectSeq(rows, Belongs)

\* No two markers of QuarterRevenueUploaded are for the same quarter, and a
\* quarter with a marker has at least as many rows in QuarterRevenue as the
\* marker counts, which is at least one.
MarkersSound ==
    LET markers == quarter.QuarterRevenueUploaded
    IN  /\ \A i, k \in 1..Len(markers) :
               (markers[i].Year = markers[k].Year
                    /\ markers[i].Season = markers[k].Season) => i = k
        /\ \A i \in 1..Len(markers) :
               /\ markers[i].RecordCount > 0
               /\ Len(QuarterRows(quarter.QuarterRevenue, markers[i].Year,
                                  markers[i].Season)) >= markers[i].RecordCount

\* C26: QuarterRevenueUploaded never holds two markers for one quarter; a
\* call of upload adds a marker only for the quarter it was asked for, in the
\* call that appended this quarter's validated rows to QuarterRevenue, and
\* the marker's RecordCount is the number of rows the call appended and the
\* value the call returned; a call that adds no marker returns 0 or raises.
C26_MarkerCountsAppendedRows ==
    [][(Called /\ world.mode = "quarter")
       => LET markers == quarter.QuarterRevenueUploaded
              rows == quarter.QuarterRevenue
              appended == Len(quarter'.QuarterRevenue) - Len(rows)
          IN  /\ MarkersSound'
              /\ SubSeq(quarter'.QuarterRevenue, 1, Len(rows)) = rows
              /\ IF quarter'.QuarterRevenueUploaded # markers
                 THEN /\ Len(quarter'.QuarterRevenueUploaded) = Len(markers) + 1
                      /\ SubSeq(quarter'.QuarterRevenueUploaded, 1, Len(markers)) = markers
                      /\ LET m == quarter'.QuarterRevenueUploaded[Len(markers) + 1]
                         IN  /\ m.Year = last'.year
                             /\ m.Season = last'.season
                             /\ appended > 0
                             /\ m.RecordCount = appended
                             /\ last'.ret = appended
                             /\ ~last'.raised
                             /\ \A n \in (Len(rows) + 1)..Len(quarter'.QuarterRevenue) :
                                    /\ quarter'.QuarterRevenue[n].Year = IntCell(m.Year)
                                    /\ quarter'.QuarterRevenue[n].Season = IntCell(m.Season)
                 ELSE last'.raised \/ last'.ret = 0]_vars

\* An upload has just stored two rows of one quarter and marked the quarter
\* with RecordCount 2, while the other quarter's one row and marker, stored by
\* an earlier call, are in place.
C26_Witness ==
    /\ world.mode = "quarter"
    /\ ncalls >= 2
    /\ ~last.raised
    /\ last.ret = 2
    /\ Len(quarter.QuarterRevenueUploaded) = 2
    /\ quarter.QuarterRevenueUploaded[2].RecordCount = 2
    /\ quarter.QuarterRevenueUploaded[1].RecordCount = 1
    /\ Len(quarter.QuarterRevenue) = 3

\* Both tables exist with the columns of the CREATE TABLE statements.
CurrentTables(t) ==
    /\ t.QuarterRevenue.exists
    /\ t.QuarterRevenue.cols = QuarterRevenueColumns
    /\ t.QuarterRevenueUploaded.exists
    /\ t.QuarterRevenueUploaded.cols = QuarterRevenueUploadedColumns

\* C30: _ensure_tables leaves both tables as they were when both have the
\* current columns, and whenever it drops QuarterRevenue it also drops
\* QuarterRevenueUploaded, so that no marker outlives the rows it stands for.
C30_TablesDroppedTogether ==
    [][(Called /\ world.mode = "ensure")
       => /\ CurrentTables(quarter)
                => (quarter' = quarter /\ last'.dropped = {})
          /\ "QuarterRevenue" \in last'.dropped
                => /\ quarter.QuarterRevenueUploaded.exists
                          => "QuarterRevenueUploaded" \in last'.dropped
                   /\ quarter'.QuarterRevenueUploaded.rows = 0]_vars

\* The same with no statement rejected by the database.
EnsureWithoutFault ==
    [][(Called /\ world.mode = "ensure" /\ last'.fault = "none")
       => /\ CurrentTables(quarter)
                => (quarter' = quarter /\ last'.dropped = {})
          /\ "QuarterRevenue" \in last'.dropped
                => /\ quarter.QuarterRevenueUploaded.exists
                          => "QuarterRevenueUploaded" \in last'.dropped
                   /\ quarter'.QuarterRevenueUploaded.rows = 0]_vars

====
